---- MODULE Spec2Model ----
(***************************************************************************)
(* LANDrop (landrop-plus): the file-transfer core.                         *)
(*                                                                         *)
(* Sender            src/landrop-plus/network/sender.cpp                   *)
(* Receiver          src/landrop-plus/network/receiver.cpp                 *)
(* FileTransferManager  src/landrop-plus/services/filetransfermanager.cpp  *)
(* MainWindow::onBatchTransferRequested  src/landrop-plus/ui/mainwindow.cpp*)
(*                                                                         *)
(* Everything runs on one Qt event loop.  A slot connected with a direct   *)
(* connection runs inside the emit, so a handler together with the slots   *)
(* its signals reach is one atomic step.  The handlers are written as      *)
(* operators from a record of the whole program state (the "world") to the *)
(* world after the handler; an action applies one handler to the current   *)
(* state.  Text on the wire is a sequence of one-character strings; file   *)
(* payload is a byte count.                                                *)
(***************************************************************************)
EXTENDS Integers, Sequences, FiniteSets, TLC

\* ---------------------------------------------------------------- bounds
MaxSenders == 2
MaxSockets == 2
MaxFileSize == 3
ChunkSize == 1
MaxDialogs == 2
MaxPeerBytes == 2
MaxPeerSize == 1
MaxLoopSenders == 1
MaxReplies == 1
MaxBatchSockets == 3
MaxDatagrams == 3
MaxSent == 2
MaxTicks == 2
ClockStep == 10000
StartTime == 20000
MaxShared == 2
MaxDownloads == 1
OtherPort == 5557
EphemeralPort == 49152

\* ------------------------------------------------------------- constants
WAITING == "WAITING"
IN_PROGRESS == "IN_PROGRESS"
FINISHED == "FINISHED"
CANCELLED == "CANCELLED"
ERROR == "ERROR"

TransferStatus == {WAITING, IN_PROGRESS, FINISHED, CANCELLED, ERROR}

\* Config::getBufferSize(): the chunk read from the file per write
BufferSize == ChunkSize
\* Config::getPort() as the program starts
TransferPort == 5556

Incoming == <<"I", "n">>
LocalIP == <<"1">>
ForeignIP == <<"2">>
FileNames == {<<"a">>, <<"b">>}

\* ------------------------------------------------------------- functions
Put(f, k, v) == [x \in DOMAIN f \cup {k} |-> IF x = k THEN v ELSE f[x]]

Del(f, k) == [x \in DOMAIN f \ {k} |-> f[x]]

Range(f) == {f[x] : x \in DOMAIN f}

Min(a, b) == IF a < b THEN a ELSE b

\* ------------------------------------------------------------------ text
DigitChars == <<"0", "1", "2", "3", "4", "5", "6", "7", "8", "9">>

IsDigit(c) == \E i \in 1..10 : DigitChars[i] = c

DigitValue(c) == (CHOOSE i \in 1..10 : DigitChars[i] = c) - 1

IsSpace(c) == c \in {" ", "\n", "\r", "\t"}

RECURSIVE NumberBytes(_)
\* QByteArray::number / QString::number of a non-negative number
NumberBytes(n) ==
    IF n < 10 THEN <<DigitChars[n + 1]>>
    ELSE NumberBytes(n \div 10) \o <<DigitChars[(n % 10) + 1]>>

RECURSIVE DigitsValue(_, _)
DigitsValue(s, acc) ==
    IF s = <<>> THEN acc ELSE DigitsValue(Tail(s), acc * 10 + DigitValue(Head(s)))

\* QByteArray::toLongLong: 0 when the text is not a decimal number
ToLongLong(s) ==
    LET neg == s # <<>> /\ Head(s) = "-"
        body == IF neg THEN Tail(s) ELSE s
    IN IF body = <<>> \/ \E i \in 1..Len(body) : ~IsDigit(body[i]) THEN 0
       ELSE IF neg THEN 0 - DigitsValue(body, 0) ELSE DigitsValue(body, 0)

\* QString::toUShort: 0 when the text is no number in 0..65535
ToUShort(s) ==
    IF s = <<>> \/ \E i \in 1..Len(s) : ~IsDigit(s[i]) THEN 0
    ELSE IF Len(s) > 5 \/ DigitsValue(s, 0) > 65535 THEN 0
    ELSE DigitsValue(s, 0)

RECURSIVE Trimmed(_)
\* QByteArray::trimmed
Trimmed(s) ==
    IF s = <<>> THEN s
    ELSE IF IsSpace(Head(s)) THEN Trimmed(Tail(s))
    ELSE IF IsSpace(s[Len(s)]) THEN Trimmed(SubSeq(s, 1, Len(s) - 1))
    ELSE s

Contains(s, c) == \E i \in 1..Len(s) : s[i] = c

RECURSIVE SplitFrom(_, _, _)
SplitFrom(s, c, cur) ==
    IF s = <<>> THEN <<cur>>
    ELSE IF Head(s) = c THEN <<cur>> \o SplitFrom(Tail(s), c, <<>>)
    ELSE SplitFrom(Tail(s), c, Append(cur, Head(s)))

\* QByteArray::split / QString::split: empty fields are kept
Split(s, c) == SplitFrom(s, c, <<>>)

StartsWith(s, p) == Len(s) >= Len(p) /\ SubSeq(s, 1, Len(p)) = p

\* the line Sender::onConnected writes: fileName|fileSize\n
MetadataLine(name, size) == name \o <<"|">> \o NumberBytes(size) \o <<"\n">>

OK == <<"O", "K">>
NO == <<"N", "O">>
OKLine == <<"O", "K", "\n">>
NOLine == <<"N", "O", "\n">>
BadLine == <<"?", "\n">>
DownloadPrefix == <<"D", "O", "W", "N", "L", "O", "A", "D", "_",
                    "R", "E", "Q", "U", "E", "S", "T", "|">>

\* ----------------------------------------------------------------- state
VARIABLES
    sessions,              \* FileTransferManager::sessions, id -> TransferSession
    senderToSession,       \* FileTransferManager::senderToSession
    receivedFileToSession, \* FileTransferManager::receivedFileToSession
    pendingBatchFiles,     \* FileTransferManager::pendingBatchFiles
    pendingBatchSockets,   \* FileTransferManager::pendingBatchSockets
    batchTimer,            \* batchTimer is running
    nextSessionId,         \* FileTransferManager::nextSessionId
    cleanups,              \* QTimer::singleShot callbacks not yet run
    senders,               \* the Sender objects ever created
    pendingFiles,          \* Receiver::pendingFiles, socket -> FileDefinition
    socks,                 \* the TCP connections accepted by the Receiver
    dialogs,               \* open BatchRequestDialogs, innermost last
    crashed,               \* a dangling pointer was used and the process died
    destroyed,             \* ~FileTransferManager has run
    statusLog,             \* per session: the statuses it took, with origin
    progBy,                \* per session: origin of the last progress update
    created,               \* transferSessionCreated events
    batchLog,              \* batchTransferRequested events
    rcvEvents,             \* per socket: the signals the Receiver emitted
    offered,               \* offers parsed since the last batch event
    discovery,             \* the BroadcastDiscoveryService object
    clock,                 \* QDateTime::currentMSecsSinceEpoch()
    datagrams,             \* the datagrams written to discoverySocket
    received,              \* number of datagrams read from discoverySocket
    lastDatagram,          \* the datagram read last and its sender address
    heard,                 \* <<ip, hostname>> -> time its last message was put in the table
    server                 \* the Receiver's QTcpServer and Config::getPort()

vars == <<sessions, senderToSession, receivedFileToSession, pendingBatchFiles,
          pendingBatchSockets, batchTimer, nextSessionId, cleanups, senders,
          pendingFiles, socks, dialogs, crashed, destroyed, statusLog, progBy,
          created, batchLog, rcvEvents, offered, discovery, clock, datagrams,
          received, lastDatagram, heard, server>>

discoveryVars == <<discovery, clock, datagrams, received, lastDatagram, heard>>

World ==
    [sessions |-> sessions, senderToSession |-> senderToSession,
     receivedFileToSession |-> receivedFileToSession,
     pendingBatchFiles |-> pendingBatchFiles,
     pendingBatchSockets |-> pendingBatchSockets, batchTimer |-> batchTimer,
     nextSessionId |-> nextSessionId, cleanups |-> cleanups,
     senders |-> senders, pendingFiles |-> pendingFiles, socks |-> socks,
     dialogs |-> dialogs, crashed |-> crashed, destroyed |-> destroyed,
     statusLog |-> statusLog,
     progBy |-> progBy, created |-> created, batchLog |-> batchLog,
     rcvEvents |-> rcvEvents, offered |-> offered]

\* a step of the running process from the current state to the world w
Commit(w) ==
    /\ ~crashed
    /\ ~destroyed
    /\ sessions' = w.sessions
    /\ senderToSession' = w.senderToSession
    /\ receivedFileToSession' = w.receivedFileToSession
    /\ pendingBatchFiles' = w.pendingBatchFiles
    /\ pendingBatchSockets' = w.pendingBatchSockets
    /\ batchTimer' = w.batchTimer
    /\ nextSessionId' = w.nextSessionId
    /\ cleanups' = w.cleanups
    /\ senders' = w.senders
    /\ pendingFiles' = w.pendingFiles
    /\ socks' = w.socks
    /\ dialogs' = w.dialogs
    /\ crashed' = w.crashed
    /\ destroyed' = w.destroyed
    /\ statusLog' = w.statusLog
    /\ progBy' = w.progBy
    /\ created' = w.created
    /\ batchLog' = w.batchLog
    /\ rcvEvents' = w.rcvEvents
    /\ offered' = w.offered
    /\ UNCHANGED discoveryVars
    /\ UNCHANGED server

\* FileTransferManager::FileTransferManager; no Sender, no connection yet, and
\* MainWindow::setupServices has not created the BroadcastDiscoveryService yet
Init ==
    /\ sessions = <<>>
    /\ senderToSession = <<>>
    /\ receivedFileToSession = <<>>
    /\ pendingBatchFiles = <<>>
    /\ pendingBatchSockets = <<>>
    /\ batchTimer = FALSE
    /\ nextSessionId = 1
    /\ cleanups = {}
    /\ senders = <<>>
    /\ pendingFiles = <<>>
    /\ socks = <<>>
    /\ dialogs = <<>>
    /\ crashed = FALSE
    /\ destroyed = FALSE
    /\ statusLog = <<>>
    /\ progBy = <<>>
    /\ created = {}
    /\ batchLog = <<>>
    /\ rcvEvents = <<>>
    /\ offered = {}
    /\ discovery = [exists |-> FALSE, discovering |-> FALSE,
                    discoverySocket |-> "null", myDiscoveryPort |-> 0,
                    broadcastTimer |-> FALSE, cleanupTimer |-> FALSE,
                    fileScanTimer |-> FALSE, localIP |-> LocalIP,
                    sharedFolder |-> <<>>,
                    discoveredUsers |-> <<>>, lastSeenTimes |-> <<>>,
                    cachedSharedFilesJson |-> <<"[", "]">>, signals |-> <<>>]
    /\ clock = StartTime
    /\ datagrams = <<>>
    /\ received = 0
    /\ lastDatagram = [message |-> <<>>, sender |-> <<>>]
    /\ heard = <<>>
    /\ server = [receiver |-> FALSE, listening |-> FALSE, serverPort |-> 0,
                 configPort |-> TransferPort, started |-> "none",
                 downloadSockets |-> <<>>]

\* origin of an event: a Sender s is s, a Receiver socket k is -k
BySender(s) == s
BySocket(k) == 0 - k

\* --------------------------------------------------- FileTransferManager
CreateTransferSession(w, fileName, recipientIP) ==
    LET sessionId == w.nextSessionId
        session == [id |-> sessionId, fileName |-> fileName,
                    recipientIP |-> recipientIP, status |-> WAITING,
                    progress |-> 0, sender |-> 0]
    IN [w EXCEPT !.nextSessionId = sessionId + 1,
                 !.sessions = Put(w.sessions, sessionId, session),
                 !.created = w.created \cup {sessionId},
                 !.statusLog = Put(w.statusLog, sessionId,
                                   <<[st |-> WAITING, by |-> 0]>>),
                 !.progBy = Put(w.progBy, sessionId, 0)]

UpdateSessionStatus(w, sessionId, status, by) ==
    IF sessionId \in DOMAIN w.sessions
    THEN [w EXCEPT !.sessions[sessionId].status = status,
                   !.statusLog[sessionId] =
                       Append(@, [st |-> status, by |-> by])]
    ELSE w

UpdateSessionProgress(w, sessionId, progress, by) ==
    IF sessionId \in DOMAIN w.sessions
    THEN [w EXCEPT !.sessions[sessionId].progress = progress,
                   !.progBy[sessionId] = by]
    ELSE w

\* a teardown that deletes the Sender inside the slot, that is inside the
\* Sender's own handler, instead of deferring it
ScheduleCleanupDeletesNow(w, s, sessionId) ==
    [w EXCEPT !.senders[s].wired = FALSE,
              !.senders[s].alive = FALSE,
              !.senders[s].deletes = @ + 1,
              !.senders[s].deletedBy = "handler",
              !.senderToSession = Del(@, s),
              !.sessions = Del(@, sessionId)]

\* the deferred teardown: QTimer::singleShot(.., [senderPtr, sessionId])
ScheduleCleanup(w, s, sessionId) ==
    [w EXCEPT !.senders[s].wired = FALSE,
              !.cleanups = w.cleanups \cup {[sender |-> s, sessionId |-> sessionId]}]

OnSenderTransferAccepted(w, s) ==
    IF s \in DOMAIN w.senderToSession
    THEN UpdateSessionStatus(w, w.senderToSession[s], IN_PROGRESS, BySender(s))
    ELSE w

OnSenderTransferRefused(w, s) ==
    IF s \notin DOMAIN w.senderToSession THEN w
    ELSE LET sessionId == w.senderToSession[s]
         IN ScheduleCleanup(
                UpdateSessionStatus(w, sessionId, CANCELLED, BySender(s)),
                s, sessionId)

OnSenderProgressUpdated(w, s, progress) ==
    IF s \in DOMAIN w.senderToSession
    THEN UpdateSessionProgress(w, w.senderToSession[s], progress, BySender(s))
    ELSE w

OnSenderTransferFinished(w, s) ==
    IF s \notin DOMAIN w.senderToSession THEN w
    ELSE LET sessionId == w.senderToSession[s]
         IN ScheduleCleanup(
                UpdateSessionStatus(w, sessionId, FINISHED, BySender(s)),
                s, sessionId)

ErrorKeeps == {FINISHED, CANCELLED}

OnSenderTransferError(w, s) ==
    IF s \notin DOMAIN w.senderToSession THEN w
    ELSE LET sessionId == w.senderToSession[s]
             w1 == IF /\ sessionId \in DOMAIN w.sessions
                      /\ w.sessions[sessionId].status \notin ErrorKeeps
                   THEN UpdateSessionStatus(w, sessionId, ERROR, BySender(s))
                   ELSE w
         IN ScheduleCleanup(w1, s, sessionId)

\* ---------------------------------------------------------------- Sender
\* the signals of a Sender; a slot of the manager runs while it is connected
Signal(w, s, sig) ==
    [w EXCEPT !.senders[s].sigLog = Append(@, sig)]

EmitTransferAccepted(w, s) ==
    LET w1 == Signal(w, s, "accepted")
    IN IF w.senders[s].wired THEN OnSenderTransferAccepted(w1, s) ELSE w1

EmitTransferRefused(w, s) ==
    LET w1 == Signal(w, s, "refused")
    IN IF w.senders[s].wired THEN OnSenderTransferRefused(w1, s) ELSE w1

EmitTransferFinished(w, s) ==
    LET w1 == [Signal(w, s, "finished") EXCEPT
                  !.senders[s].sentAtFinish = w.senders[s].bytesSent]
    IN IF w.senders[s].wired THEN OnSenderTransferFinished(w1, s) ELSE w1

EmitTransferError(w, s) ==
    LET w1 == Signal(w, s, "error")
    IN IF w.senders[s].wired THEN OnSenderTransferError(w1, s) ELSE w1

EmitProgressUpdated(w, s, percent) ==
    LET w1 == [w EXCEPT !.senders[s].progLog = Append(@, percent)]
    IN IF w.senders[s].wired THEN OnSenderProgressUpdated(w1, s, percent) ELSE w1

\* Sender::Sender, with the file the caller will name
NewSender(file, ip, isWired) ==
    [alive |-> TRUE, wired |-> isWired, socket |-> "null", file |-> "null",
     fname |-> file.name, fexists |-> file.exists, fsize |-> file.size,
     freadable |-> file.readable, pos |-> 0, bytesSent |-> 0,
     connectionTimer |-> FALSE, responseTimer |-> FALSE, wbuf |-> 0,
     streaming |-> FALSE, ip |-> ip, conn |-> 0, rbuf |-> <<>>, nrep |-> 0,
     session |-> 0, sigLog |-> <<>>, progLog |-> <<>>, sentAtFinish |-> 0 - 1,
     payload |-> 0, faulted |-> FALSE, timedOut |-> "none",
     firstReply |-> "none", deletes |-> 0, deletedBy |-> "none"]

\* the client end of Sender s's connection closes
CloseClientEnd(w, s) ==
    LET k == w.senders[s].conn
    IN IF k \in DOMAIN w.socks THEN [w EXCEPT !.socks[k].cli = "closed"] ELSE w

Reset(w, s) ==
    LET sd == w.senders[s]
        w1 == IF sd.socket # "null" /\ sd.socket # "unconnected"
              THEN CloseClientEnd(w, s) ELSE w
    IN [w1 EXCEPT !.senders[s].connectionTimer = FALSE,
                  !.senders[s].responseTimer = FALSE,
                  !.senders[s].socket = "null",
                  !.senders[s].wbuf = 0,
                  !.senders[s].streaming = FALSE,
                  !.senders[s].rbuf = <<>>,
                  !.senders[s].file = "null",
                  !.senders[s].pos = 0,
                  !.senders[s].bytesSent = 0]

\* delete sender: ~Sender runs reset; deleting an object twice is undefined
DeleteSender(w, s, by) ==
    IF ~w.senders[s].alive THEN [w EXCEPT !.crashed = TRUE]
    ELSE [Reset(w, s) EXCEPT !.senders[s].alive = FALSE,
                             !.senders[s].deletes = @ + 1,
                             !.senders[s].deletedBy = by]

\* QTcpSocket::disconnectFromHost on the Sender's socket: with nothing left
\* to write the socket closes at once and its disconnected signal runs reset
DisconnectSenderSocket(w, s) ==
    LET sd == w.senders[s]
    IN IF sd.socket \in {"null", "unconnected"} THEN w
       ELSE IF sd.wbuf = 0 THEN Reset(w, s)
       ELSE [w EXCEPT !.senders[s].socket = "closing"]

SendFile(w, s) ==
    LET w1 == [Reset(w, s) EXCEPT !.senders[s].file = "closed"]
    IN IF ~w1.senders[s].fexists THEN w1
       ELSE [w1 EXCEPT !.senders[s].socket = "connecting",
                       !.senders[s].connectionTimer = TRUE]

\* file->read(Config::getBufferSize())
ChunkLen(sd) == Min(BufferSize, sd.fsize - sd.pos)

ReadChunk(w, s) ==
    LET n == ChunkLen(w.senders[s])
    IN [w EXCEPT !.senders[s].pos = @ + n, !.senders[s].bytesSent = @ + n]

WriteChunk(w, s, n) ==
    [w EXCEPT !.senders[s].wbuf = @ + n, !.senders[s].payload = @ + n]

FirstWriteFails(n) == n < 1

ReplyKind(response) ==
    IF response = OK THEN "OK" ELSE IF response = NO THEN "NO" ELSE "other"

OnReadyReadOK(w, s) ==
    LET w1 == EmitTransferAccepted(
                  [w EXCEPT !.senders[s].responseTimer = FALSE], s)
        sd == w1.senders[s]
    IN IF ~(sd.freadable /\ sd.file # "open") THEN Reset(w1, s)
       ELSE LET w2 == [w1 EXCEPT !.senders[s].file = "open",
                                 !.senders[s].bytesSent = 0,
                                 !.senders[s].streaming = TRUE]
                n == ChunkLen(w2.senders[s])
                w3 == WriteChunk(ReadChunk(w2, s), s, n)
            IN IF FirstWriteFails(n) THEN EmitTransferError(w3, s) ELSE w3

\* a refusal that leaves the connection open
OnReadyReadNOKeepsSocket(w, s) ==
    EmitTransferRefused([w EXCEPT !.senders[s].responseTimer = FALSE], s)

OnReadyReadNO(w, s) ==
    EmitTransferRefused(
        DisconnectSenderSocket(
            [w EXCEPT !.senders[s].responseTimer = FALSE], s), s)

\* an unknown reply taken for an acceptance
OnReadyReadOtherStreams(w, s) == OnReadyReadOK(w, s)

OnReadyReadOther(w, s) ==
    EmitTransferError(
        DisconnectSenderSocket(
            [w EXCEPT !.senders[s].responseTimer = FALSE], s), s)

\* Sender::onReadyRead: one line is read from the socket
OnReadyRead(w, s) ==
    IF w.senders[s].socket = "null" THEN w
    ELSE LET response == Trimmed(Head(w.senders[s].rbuf))
             w1 == [w EXCEPT !.senders[s].rbuf = Tail(@),
                             !.senders[s].firstReply =
                                 IF @ = "none" THEN ReplyKind(response) ELSE @]
         IN IF response = OK THEN OnReadyReadOK(w1, s)
            ELSE IF response = NO THEN OnReadyReadNO(w1, s)
            ELSE OnReadyReadOther(w1, s)

\* the lambda connected to bytesWritten
OnBytesWritten(w, s) ==
    LET sd == w.senders[s]
    IN IF sd.file # "open" \/ sd.socket = "null" THEN w
       ELSE IF sd.pos < sd.fsize
       THEN LET n == ChunkLen(sd)
                w1 == ReadChunk(w, s)
                w2 == EmitProgressUpdated(w1, s,
                          (w1.senders[s].bytesSent * 100) \div sd.fsize)
            IN WriteChunk(w2, s, n)
       ELSE DisconnectSenderSocket(
                [EmitTransferFinished(w, s) EXCEPT !.senders[s].file = "closed"],
                s)

OnConnected(w, s, k) ==
    LET sd == w.senders[s]
        line == MetadataLine(sd.fname, sd.fsize)
        w1 == [w EXCEPT !.senders[s].socket = "connected",
                        !.senders[s].connectionTimer = FALSE,
                        !.senders[s].responseTimer = TRUE,
                        !.senders[s].conn = k]
    IN IF k = 0 THEN w1
       ELSE [w1 EXCEPT !.socks = Put(w1.socks, k,
                 [client |-> s, lines |-> <<line>>, bytes |-> 0, rbuf |-> 0,
                  sent |-> 0, replies |-> <<>>, srv |-> "open",
                  cli |-> "open", session |-> 0, wrote |-> <<>>,
                  wfail |-> FALSE, early |-> 0, late |-> 0,
                  downloadSenders |-> <<>>]),
                       !.rcvEvents = Put(w1.rcvEvents, k, <<>>)]

\* a timeout that reports the error and releases nothing
OnTimeoutKeepsSocket(w, s, which) ==
    EmitTransferError([w EXCEPT !.senders[s].timedOut = which], s)

\* the lambdas connected to connectionTimer and responseTimer
OnTimeout(w, s, which) ==
    Reset(EmitTransferError([w EXCEPT !.senders[s].timedOut = which], s), s)

\* --------------------------------------- FileTransferManager, inbound
\* QMap::insert
Insert(f, key, v) == Put(f, key, v)

OnReceiverFileTransferRequested(w, fileName, fileSize, k) ==
    LET w1 == [w EXCEPT
                 !.pendingBatchFiles = Insert(@, fileName, ToLongLong(fileSize)),
                 !.pendingBatchSockets = Insert(@, fileName, k),
                 !.batchTimer = TRUE,
                 !.offered = @ \cup {[sock |-> k, name |-> fileName]}]
        sessionId == w1.nextSessionId
        w2 == CreateTransferSession(w1, fileName, Incoming)
        w3 == [w2 EXCEPT !.receivedFileToSession = Put(@, fileName, sessionId),
                         !.socks[k].session = sessionId]
    IN UpdateSessionStatus(w3, sessionId, WAITING, BySocket(k))

OnReceiverProgressUpdated(w, fileName, progress, k) ==
    IF fileName \in DOMAIN w.receivedFileToSession
    THEN UpdateSessionProgress(w, w.receivedFileToSession[fileName], progress,
                               BySocket(k))
    ELSE w

OnReceiverStatusUpdated(w, fileName, status, k) ==
    IF fileName \in DOMAIN w.receivedFileToSession
    THEN UpdateSessionStatus(w, w.receivedFileToSession[fileName], status,
                             BySocket(k))
    ELSE w

OnReceiverFileReceived(w, fileName, k) ==
    IF fileName \in DOMAIN w.receivedFileToSession
    THEN [UpdateSessionStatus(w, w.receivedFileToSession[fileName], FINISHED,
                              BySocket(k))
            EXCEPT !.receivedFileToSession = Del(@, fileName)]
    ELSE w

\* -------------------------------------------------------------- Receiver
RECURSIVE LastIndexOf(_, _)
LastIndexOf(s, c) ==
    IF s = <<>> THEN 0
    ELSE IF s[Len(s)] = c THEN Len(s)
    ELSE LastIndexOf(SubSeq(s, 1, Len(s) - 1), c)

\* QFileInfo(fileName).fileName(): what follows the last '/'
BaseName(name) == SubSeq(name, LastIndexOf(name, "/") + 1, Len(name))

RcvSignal(w, k, sig) ==
    LET fi == w.pendingFiles[k]
    IN [w EXCEPT !.rcvEvents[k] =
           Append(@, [sig |-> sig, recv |-> fi.totalReceived, size |-> fi.size])]

EmitFileTransferRequested(w, k) ==
    LET fi == w.pendingFiles[k]
    IN OnReceiverFileTransferRequested(RcvSignal(w, k, "requested"),
                                       fi.name, NumberBytes(fi.size), k)

EmitTransferStatusUpdated(w, k, status) ==
    OnReceiverStatusUpdated(RcvSignal(w, k, status), w.pendingFiles[k].name,
                            status, k)

EmitFileReceivedSuccessfully(w, k) ==
    OnReceiverFileReceived(RcvSignal(w, k, "received"),
                           BaseName(w.pendingFiles[k].name), k)

EmitTransferProgressUpdated(w, k, percent) ==
    OnReceiverProgressUpdated(w, w.pendingFiles[k].name, percent, k)

\* a comparison that also counts a complete file as short
IsShortOrEqual(fi) == fi.totalReceived <= fi.size

\* Receiver::onDisconnected: totalReceived < size
IsShort(fi) == fi.totalReceived < fi.size

\* Receiver::onDisconnected
RcvOnDisconnected(w, k) ==
    IF k \in DOMAIN w.pendingFiles
    THEN LET w1 == IF IsShort(w.pendingFiles[k])
                   THEN EmitTransferStatusUpdated(w, k, CANCELLED)
                   ELSE EmitTransferStatusUpdated(
                            EmitFileReceivedSuccessfully(w, k), k, FINISHED)
         IN [w1 EXCEPT !.pendingFiles = Del(@, k)]
    ELSE w

\* a use of a socket object that was disconnected and handed to deleteLater:
\* the object may still be there (nothing happens) or be gone (the process dies)
Dangling(w, ub) == IF ub = "crash" THEN [w EXCEPT !.crashed = TRUE] ELSE w

\* the server end's socket->disconnectFromHost(): nothing is left to write,
\* the socket closes at once and its disconnected signal runs onDisconnected
ServerDisconnect(w, k, ub) ==
    IF w.crashed THEN w
    ELSE IF w.socks[k].srv = "open"
    THEN RcvOnDisconnected(
             [w EXCEPT !.socks[k].srv = "closed", !.socks[k].lines = <<>>,
                       !.socks[k].bytes = 0, !.socks[k].rbuf = 0], k)
    ELSE Dangling(w, ub)

\* the server end's socket->write(line); socket->flush()
ServerWrite(w, k, line, ub) ==
    IF w.crashed THEN w
    ELSE IF w.socks[k].srv = "open"
    THEN IF w.socks[k].client # 0 /\ w.socks[k].cli = "open"
         THEN [w EXCEPT !.socks[k].replies = Append(@, line),
                        !.socks[k].wrote = Append(@, line)]
         ELSE w
    ELSE Dangling(w, ub)

\* Receiver::setFile with a file the caller has opened
SetFile(w, k) ==
    IF w.crashed \/ k \notin DOMAIN w.pendingFiles THEN w
    ELSE [w EXCEPT !.pendingFiles[k].file = "open"]

\* static_cast<int>(((float)totalReceived / (float)size) * 100); with size 0
\* the quotient is infinite and the conversion to int is undefined
IntMin == 0 - 2147483647 - 1

UndefinedInts == {IntMin, 0}

Percentages(totalReceived, size) ==
    IF size = 0 THEN UndefinedInts ELSE {(totalReceived * 100) \div size}

\* the names of the files in the shared folder
SharedPaths == {<<"a">>}

\* Config::getSharedFolderPath() as an absolute path; the pieces of a path
\* are characters, "/" and the component ".."
SharedDir == <<"/", "s", "/">>

\* QDir(sharedDir).absoluteFilePath(relativePath): an absolute path is
\* returned as it is
AbsoluteFilePath(relativePath) ==
    IF relativePath # <<>> /\ Head(relativePath) = "/" THEN relativePath
    ELSE SharedDir \o relativePath

RECURSIVE ResolveParts(_, _)
ResolveParts(parts, acc) ==
    IF parts = <<>> THEN acc
    ELSE IF Head(parts) \in {<<>>, <<".">>} THEN ResolveParts(Tail(parts), acc)
    ELSE IF Head(parts) = <<"..">>
    THEN ResolveParts(Tail(parts),
                      IF acc = <<>> THEN acc ELSE SubSeq(acc, 1, Len(acc) - 1))
    ELSE ResolveParts(Tail(parts), Append(acc, Head(parts)))

\* the file the operating system opens for a path: its components from the
\* root, with "." and ".." resolved
Resolve(path) == ResolveParts(Split(path, "/"), <<>>)

\* the regular files of the host: those of the shared folder and a file c
\* next to the folder; QFileInfo(fullPath).exists() && isFile()
ExistingFiles ==
    {Resolve(SharedDir \o name) : name \in SharedPaths} \cup {<<<<"c">>>>}

\* clientSocket->peerAddress(): this host for a Sender of this instance
PeerAddress(sock) == IF sock.client = 0 THEN ForeignIP ELSE LocalIP

\* Receiver::handleDownloadRequest: a Sender of the Receiver's own, not known
\* to the manager, starts sendFile(fullPath, clientIP, clientPort)
HandleDownloadRequest(w, k, clientIP, relativePath, fileName, clientPort) ==
    IF Resolve(AbsoluteFilePath(relativePath)) \notin ExistingFiles THEN w
    ELSE [w EXCEPT !.socks[k].downloadSenders =
             Append(@, [file |-> relativePath,
                        fullPath |-> AbsoluteFilePath(relativePath),
                        ip |-> clientIP,
                        port |-> clientPort, socket |-> "connecting",
                        connectionTimer |-> TRUE])]

\* a download branch that leaves the requesting socket open
RcvReadDownloadRequestKeepsSocket(w, k, line) ==
    LET parts == Split(line, "|")
    IN IF Len(parts) >= 4
       THEN HandleDownloadRequest(w, k, PeerAddress(w.socks[k]), parts[2],
                                  parts[3], ToUShort(parts[4]))
       ELSE w

\* the branch of Receiver::onReadyRead for a line "DOWNLOAD_REQUEST|.."
RcvReadDownloadRequest(w, k, line) ==
    LET parts == Split(line, "|")
        w1 == IF Len(parts) >= 4
              THEN HandleDownloadRequest(w, k, PeerAddress(w.socks[k]),
                                         parts[2], parts[3], ToUShort(parts[4]))
              ELSE w
    IN ServerDisconnect(w1, k, "none")

\* Receiver::onReadyRead for a socket without a pending entry
RcvReadMetadata(w, k, arrivedLine) ==
    LET line == Trimmed(arrivedLine)
        data == Split(line, "|")
        fileName == data[1]
        fileSize == ToLongLong(data[2])
    IN IF line = <<>> \/ ~Contains(line, "|") THEN ServerDisconnect(w, k, "none")
       ELSE IF StartsWith(line, DownloadPrefix) THEN RcvReadDownloadRequest(w, k, line)
       ELSE IF Len(data) < 2 THEN ServerDisconnect(w, k, "none")
       ELSE IF fileName = <<>> \/ fileSize < 0 THEN ServerDisconnect(w, k, "none")
       ELSE EmitFileTransferRequested(
                [w EXCEPT !.pendingFiles = Put(@, k,
                     [name |-> fileName, size |-> fileSize,
                      totalReceived |-> 0, file |-> "null"])], k)

\* Receiver::onReadyRead for a socket with a pending entry; n bytes can be read
RcvReadData(w, k, n, writeFails, percent) ==
    LET fi == w.pendingFiles[k]
    IN IF fi.file # "open" THEN w
       ELSE IF n = 0 THEN w
       ELSE LET w1 == [w EXCEPT !.socks[k].rbuf = 0]
            IN IF writeFails
               THEN ServerDisconnect(
                        EmitTransferStatusUpdated(
                            [w1 EXCEPT !.socks[k].wfail = TRUE], k, CANCELLED),
                        k, "none")
               ELSE LET w2 == [w1 EXCEPT !.pendingFiles[k].totalReceived = @ + n]
                        w3 == EmitTransferProgressUpdated(w2, k, percent)
                    IN IF w3.pendingFiles[k].totalReceived >= fi.size
                       THEN ServerDisconnect(w3, k, "none")
                       ELSE w3

\* ------------------------------------- MainWindow and the batch timer
Alphabet == <<"a", "b", "c", "d", "/", "|", "?">>

CharRank(c) == IF \E i \in 1..Len(Alphabet) : Alphabet[i] = c
               THEN CHOOSE i \in 1..Len(Alphabet) : Alphabet[i] = c
               ELSE 0

RECURSIVE NameLess(_, _)
\* the order of the keys of a QMap<QString, ..>
NameLess(a, b) ==
    IF b = <<>> THEN FALSE
    ELSE IF a = <<>> THEN TRUE
    ELSE IF Head(a) = Head(b) THEN NameLess(Tail(a), Tail(b))
    ELSE CharRank(Head(a)) < CharRank(Head(b))

RECURSIVE Keys(_)
\* QMap::keys(): the keys in ascending order
Keys(f) ==
    IF DOMAIN f = {} THEN <<>>
    ELSE LET least == CHOOSE x \in DOMAIN f :
                          \A y \in DOMAIN f \ {x} : NameLess(x, y)
         IN <<least>> \o Keys(Del(f, least))

Decline(w, k, ub) == ServerDisconnect(ServerWrite(w, k, NOLine, ub), k, ub)

\* one iteration of the loops of MainWindow::onBatchTransferRequested
DecideFile(w, fileName, d) ==
    LET k == w.pendingBatchSockets[fileName]
    IN IF w.crashed THEN w
       ELSE IF d.accepted /\ fileName \in d.checked
       THEN LET w1 == ServerWrite(w, k, OKLine, d.ub)
            IN IF fileName \in d.openFails THEN Decline(w1, k, d.ub)
               ELSE SetFile(w1, k)
       ELSE Decline(w, k, d.ub)

RECURSIVE DecideFiles(_, _, _)
DecideFiles(w, names, d) ==
    IF names = <<>> THEN w
    ELSE DecideFiles(DecideFile(w, Head(names), d), Tail(names), d)

\* the lambda connected to batchTimer, up to the point where the slot
\* MainWindow::onBatchTransferRequested blocks in dlg.exec()
OnBatchTimeout(w) ==
    [w EXCEPT !.batchTimer = FALSE,
              !.batchLog = Append(@, [files |-> w.pendingBatchFiles,
                                      sockets |-> w.pendingBatchSockets,
                                      offered |-> w.offered]),
              !.offered = {},
              !.dialogs = Append(@, DOMAIN w.pendingBatchFiles)]

ClearBatch(f) == <<>>

\* dlg.exec() returns: the rest of MainWindow::onBatchTransferRequested, which
\* reads the manager's maps through the references the signal carried, then
\* the rest of the timer's lambda
OnDialogDone(w, d) ==
    LET w1 == DecideFiles(w, Keys(w.pendingBatchFiles), d)
    IN IF w1.crashed THEN w1
       ELSE [w1 EXCEPT !.pendingBatchFiles = ClearBatch(@),
                       !.pendingBatchSockets = ClearBatch(@),
                       !.dialogs = SubSeq(@, 1, Len(@) - 1)]

\* a callback that removes the session and leaves the Sender's map entry
OnCleanupKeepsEntry(w, cb) ==
    LET w0 == [w EXCEPT !.cleanups = @ \ {cb},
                        !.sessions = Del(@, cb.sessionId)]
    IN IF w0.senders[cb.sender].alive
       THEN DeleteSender(w0, cb.sender, "callback")
       ELSE w0

\* the callback of QTimer::singleShot in onSenderTransferRefused/Finished/Error
OnCleanup(w, cb) ==
    LET w0 == [w EXCEPT !.cleanups = @ \ {cb}]
    IN IF w0.senders[cb.sender].alive
       THEN LET w1 == [w0 EXCEPT !.senderToSession = Del(@, cb.sender),
                                 !.sessions = Del(@, cb.sessionId)]
            IN DeleteSender(w1, cb.sender, "callback")
       ELSE LET hit == {x \in DOMAIN w0.senderToSession :
                            w0.senderToSession[x] = cb.sessionId}
            IN [w0 EXCEPT !.sessions = Del(@, cb.sessionId),
                          !.senderToSession =
                              IF hit = {} THEN @
                              ELSE Del(@, CHOOSE x \in hit :
                                              \A y \in hit : x <= y)]

RECURSIVE DeleteSenders(_, _)
\* the loop of ~FileTransferManager over senderToSession
DeleteSenders(w, keys) ==
    IF keys = {} \/ w.crashed THEN w
    ELSE LET s == CHOOSE x \in keys : \A y \in keys : x <= y
         IN DeleteSenders(
                DeleteSender([w EXCEPT !.senders[s].wired = FALSE], s,
                             "destructor"),
                keys \ {s})

\* FileTransferManager::~FileTransferManager, then ~QObject: the callbacks
\* of QTimer::singleShot whose context is the manager are dropped
Destroy(w) ==
    LET w1 == DeleteSenders(w, DOMAIN w.senderToSession)
    IN IF w1.crashed THEN w1
       ELSE [w1 EXCEPT !.senderToSession = <<>>,
                       !.sessions = <<>>,
                       !.cleanups = {},
                       !.batchTimer = FALSE,
                       !.destroyed = TRUE]

\* --------------------------------------------------------------- actions
Senders == DOMAIN senders

Sockets == DOMAIN socks

Live(s) == s \in Senders /\ senders[s].alive

\* FileTransferManager::sendFilesToUsers for one file and one recipient
SendFilesToUsers(file, ip) ==
    LET s == Cardinality(Senders) + 1
        sessionId == nextSessionId
        w1 == CreateTransferSession(World, file.name \o <<" ", "@">> \o ip, ip)
        w2 == [w1 EXCEPT !.sessions[sessionId].sender = s,
                         !.senders = Put(@, s,
                             [NewSender(file, ip, TRUE) EXCEPT
                                 !.session = sessionId]),
                         !.senderToSession = Put(@, s, sessionId)]
    IN /\ s <= MaxSenders
       /\ Commit(SendFile(w2, s))

\* the socket's connected signal: the local Receiver accepts connection k,
\* or a server on another host accepts (k = 0)
SenderConnected(s) ==
    /\ Live(s)
    /\ senders[s].socket = "connecting"
    /\ IF senders[s].ip = LocalIP
       THEN /\ Cardinality(Sockets) < MaxSockets
            /\ Commit(OnConnected(World, s, Cardinality(Sockets) + 1))
       ELSE Commit(OnConnected(World, s, 0))

ConnectionTimeout(s) ==
    /\ Live(s)
    /\ senders[s].connectionTimer
    /\ Commit(OnTimeout(World, s, "connect"))

ResponseTimeout(s) ==
    /\ Live(s)
    /\ senders[s].responseTimer
    /\ Commit(OnTimeout(World, s, "response"))

\* the socket's errorOccurred signal for a network fault; a connected socket
\* then emits disconnected, which runs reset
SenderSocketError(s) ==
    /\ Live(s)
    /\ senders[s].socket \in {"connecting", "connected", "closing"}
    /\ LET w1 == EmitTransferError([World EXCEPT !.senders[s].faulted = TRUE], s)
       IN IF senders[s].socket = "connecting"
          THEN Commit([w1 EXCEPT !.senders[s].socket = "unconnected"])
          ELSE Commit(Reset(w1, s))

\* the Receiver closed its end: errorOccurred(RemoteHostClosedError), then
\* disconnected
SenderRemoteClosed(s) ==
    /\ Live(s)
    /\ senders[s].socket \in {"connected", "closing"}
    /\ senders[s].conn \in Sockets
    /\ socks[senders[s].conn].srv = "closed"
    /\ socks[senders[s].conn].replies = <<>>
    /\ Commit(Reset(EmitTransferError(World, s), s))

\* the socket's readyRead signal: the lines the Receiver wrote have arrived
SenderReadyRead(s) ==
    /\ Live(s)
    /\ senders[s].socket \in {"connected", "closing"}
    /\ senders[s].conn \in Sockets
    /\ socks[senders[s].conn].replies # <<>>
    /\ LET k == senders[s].conn
           w1 == [World EXCEPT !.senders[s].rbuf = @ \o socks[k].replies,
                               !.socks[k].replies = <<>>]
       IN Commit(OnReadyRead(w1, s))

\* the socket's readyRead signal: a server on another host has written a line
ForeignReply(s, line) ==
    /\ Live(s)
    /\ senders[s].socket \in {"connected", "closing"}
    /\ senders[s].conn = 0
    /\ senders[s].nrep < MaxReplies
    /\ LET w1 == [World EXCEPT !.senders[s].rbuf = Append(@, line),
                               !.senders[s].nrep = @ + 1]
       IN Commit(OnReadyRead(w1, s))

\* the socket's bytesWritten signal: the buffered payload went to the network
SenderBytesWritten(s) ==
    /\ Live(s)
    /\ senders[s].socket \in {"connected", "closing"}
    /\ senders[s].wbuf > 0
    /\ LET k == senders[s].conn
           n == senders[s].wbuf
           w1 == [World EXCEPT !.senders[s].wbuf = 0]
           w2 == IF k \in Sockets /\ socks[k].srv = "open"
                 THEN [w1 EXCEPT !.socks[k].bytes = @ + n] ELSE w1
           w3 == IF w2.senders[s].streaming THEN OnBytesWritten(w2, s) ELSE w2
       IN IF w3.senders[s].socket = "closing" /\ w3.senders[s].wbuf = 0
          THEN Commit(Reset(w3, s))
          ELSE Commit(w3)

CleanupFire(cb) ==
    /\ cb \in cleanups
    /\ Commit(OnCleanup(World, cb))

\* the application quits: the manager is destroyed
ManagerDestroyed ==
    Commit(Destroy(World))

\* a peer that is not a Sender of this program connects and writes a line
Accept(line, limit) ==
    LET k == Cardinality(Sockets) + 1
    IN /\ k <= limit
       /\ ~crashed
       /\ ~destroyed
       /\ socks' = Put(socks, k,
              [client |-> 0, lines |-> <<line>>, bytes |-> 0, rbuf |-> 0,
               sent |-> 0, replies |-> <<>>, srv |-> "open", cli |-> "open",
               session |-> 0, wrote |-> <<>>, wfail |-> FALSE,
               early |-> 0, late |-> 0, downloadSenders |-> <<>>])
       /\ rcvEvents' = Put(rcvEvents, k, <<>>)
       /\ UNCHANGED <<sessions, senderToSession, receivedFileToSession,
                      pendingBatchFiles, pendingBatchSockets, batchTimer,
                      nextSessionId, cleanups, senders, pendingFiles, dialogs,
                      crashed, destroyed, statusLog, progBy, created, batchLog,
                      offered>>
       /\ UNCHANGED discoveryVars
       /\ UNCHANGED server

PeerConnect(line) == Accept(line, MaxSockets)

\* a peer that sends several files opens one socket per file
PeerOffer(fileName) == Accept(MetadataLine(fileName, 1), MaxBatchSockets)

PeerSendBytes(k, n) ==
    /\ k \in Sockets
    /\ socks[k].client = 0
    /\ socks[k].cli = "open"
    /\ socks[k].srv = "open"
    /\ socks[k].sent + n <= MaxPeerBytes
    /\ Commit([World EXCEPT !.socks[k].bytes = @ + n, !.socks[k].sent = @ + n])

PeerClose(k) ==
    /\ k \in Sockets
    /\ socks[k].client = 0
    /\ socks[k].cli = "open"
    /\ Commit([World EXCEPT !.socks[k].cli = "closed"])

\* readyRead of an accepted socket: what is in flight arrives, and
\* Receiver::onReadyRead runs once
ReceiverReadyRead(k, writeFails) ==
    /\ k \in Sockets
    /\ socks[k].srv = "open"
    /\ socks[k].lines # <<>> \/ socks[k].bytes > 0
    /\ LET n == socks[k].rbuf + socks[k].bytes
           attached == k \in DOMAIN pendingFiles /\ pendingFiles[k].file = "open"
           \* early, late: the bytes that arrived before and after a file
           \* was attached to the socket
           w1 == [World EXCEPT !.socks[k].lines = <<>>, !.socks[k].bytes = 0,
                               !.socks[k].rbuf = n,
                               !.socks[k].early =
                                   IF attached THEN @ ELSE @ + socks[k].bytes,
                               !.socks[k].late =
                                   IF attached THEN @ + socks[k].bytes ELSE @]
       IN IF k \notin DOMAIN pendingFiles
          THEN /\ socks[k].lines # <<>>
               /\ ~writeFails
               /\ Commit(RcvReadMetadata(w1, k, Head(socks[k].lines)))
          ELSE IF pendingFiles[k].file # "open"
          THEN /\ ~writeFails
               /\ Commit(RcvReadData(w1, k, n, FALSE, 0))
          ELSE \E percent \in
                   IF writeFails THEN {0}
                   ELSE Percentages(pendingFiles[k].totalReceived + n,
                                    pendingFiles[k].size) :
                   Commit(RcvReadData(w1, k, n, writeFails, percent))

\* the peer closed the connection and everything it wrote was read
ReceiverDisconnected(k) ==
    /\ k \in Sockets
    /\ socks[k].srv = "open"
    /\ socks[k].cli = "closed"
    /\ socks[k].lines = <<>>
    /\ socks[k].bytes = 0
    /\ Commit(ServerDisconnect(World, k, "none"))

BatchTimerFire ==
    /\ batchTimer
    /\ Len(dialogs) < MaxDialogs
    /\ Commit(OnBatchTimeout(World))

Decisions(names) ==
    {[accepted |-> a, checked |-> c, openFails |-> f, ub |-> u] :
        a \in BOOLEAN, c \in SUBSET names, f \in SUBSET names,
        u \in {"ignore", "crash"}}

\* the user closes the innermost dialog
DialogReturn(d) ==
    /\ dialogs # <<>>
    /\ d.checked \subseteq dialogs[Len(dialogs)]
    /\ d.openFails \subseteq d.checked
    /\ ~d.accepted => d.checked = {}
    /\ LET w1 == OnDialogDone(World, d)
       IN /\ d.ub = "crash" => w1.crashed
          /\ Commit(w1)

SendableFiles(names) ==
    {file \in [name : names, exists : BOOLEAN, size : 0..MaxFileSize,
               readable : BOOLEAN] :
        ~file.exists => file.size = 0 /\ ~file.readable}

PeerLines ==
    {MetadataLine(nm, sz) : nm \in FileNames, sz \in 0..MaxPeerSize}

\* first lines that are no offer: empty, without '|', without a name, with a
\* size that is no number, a negative size, no size
MalformedLines ==
    {<<"\n">>, <<"a", "\n">>, <<"|", "1", "\n">>, <<"a", "|", "x", "\n">>,
     <<"a", "|", "-", "1", "\n">>, <<"a", "|", "\n">>}

\* download requests: for a shared file, for a file that is not there, with
\* a reply port that is no number, for a file next to the shared folder, with
\* three fields, with the prefix alone
DownloadLines ==
    {DownloadPrefix \o rest :
        rest \in {<<"a", "|", "a", "|", "5", "5", "5", "7", "\n">>,
                  <<"b", "|", "b", "|", "5", "5", "5", "7", "\n">>,
                  <<"a", "|", "a", "|", "x", "\n">>,
                  <<"..", "/", "c", "|", "c", "|", "5", "5", "5", "7", "\n">>,
                  <<"a", "|", "a", "\n">>,
                  <<"\n">>}}

\* the steps of a Sender and of the manager's slots and callbacks for it
SenderNext ==
    \/ \E s \in Senders : SenderConnected(s)
    \/ \E s \in Senders : ConnectionTimeout(s)
    \/ \E s \in Senders : ResponseTimeout(s)
    \/ \E s \in Senders : SenderBytesWritten(s)
    \/ \E cb \in cleanups : CleanupFire(cb)

\* the steps of the Receiver, of the batch timer and of the dialog
ReceiverNext ==
    \/ \E k \in Sockets, writeFails \in BOOLEAN : ReceiverReadyRead(k, writeFails)
    \/ \E k \in Sockets : ReceiverDisconnected(k)
    \/ BatchTimerFire
    \/ \E d \in Decisions(FileNames) : DialogReturn(d)

\* ------------------------------------------------- the Receiver's server
\* QTcpServer::listen(Any, port): port 0 asks for any free port
Listen(srv, port, busy, anyFree) ==
    IF port = 0
    THEN IF anyFree THEN [srv EXCEPT !.listening = TRUE, !.serverPort = EphemeralPort]
         ELSE srv
    ELSE IF port \in busy THEN srv
    ELSE [srv EXCEPT !.listening = TRUE, !.serverPort = port]

\* Receiver::startServer; serverPort() of a server that does not listen is 0
StartServer(srv, port, busy, anyFree) ==
    LET targetPort == IF port = 0 THEN srv.configPort ELSE port
        s1 == Listen(srv, targetPort, busy, anyFree)
        s2 == IF ~s1.listening /\ port # 0 THEN Listen(s1, 0, busy, anyFree) ELSE s1
    IN IF ~s1.listening /\ port # 0 /\ ~s2.listening
       THEN [s2 EXCEPT !.started = "false"]
       ELSE [s2 EXCEPT !.configPort = s2.serverPort, !.started = "true"]

\* FileTransferManager::setupReceiver: startServer() with the default port 0
SetupReceiver(srv, busy, anyFree) ==
    IF srv.receiver THEN srv
    ELSE LET s1 == StartServer([srv EXCEPT !.receiver = TRUE, !.listening = FALSE,
                                           !.serverPort = 0], 0, busy, anyFree)
         IN IF s1.started = "false"
            THEN [s1 EXCEPT !.receiver = FALSE, !.listening = FALSE, !.serverPort = 0]
            ELSE [s1 EXCEPT !.configPort = s1.serverPort]

\* FileTransferManager::restartReceiver
RestartReceiver(srv, busy, anyFree) ==
    SetupReceiver([srv EXCEPT !.receiver = FALSE, !.listening = FALSE,
                              !.serverPort = 0], busy, anyFree)

\* ------------------------------------------------- downloadSharedFile
\* the numbers of the place markers %1..%9 of a text
Markers(s) ==
    {DigitValue(s[i + 1]) :
        i \in {j \in 1..(Len(s) - 1) :
                  s[j] = "%" /\ IsDigit(s[j + 1]) /\ s[j + 1] # "0"}}

RECURSIVE ReplaceMarkers(_, _)
\* one pass over the text: a marker %n with n in DOMAIN by becomes by[n]
ReplaceMarkers(s, by) ==
    IF s = <<>> THEN <<>>
    ELSE IF /\ Len(s) >= 2 /\ s[1] = "%" /\ IsDigit(s[2])
            /\ DigitValue(s[2]) \in DOMAIN by
    THEN by[DigitValue(s[2])] \o ReplaceMarkers(SubSeq(s, 3, Len(s)), by)
    ELSE <<s[1]>> \o ReplaceMarkers(Tail(s), by)

Lowest(S) == CHOOSE x \in S : \A y \in S : x <= y

\* QString::arg(a): every marker with the lowest number becomes a
Arg(s, a) ==
    IF Markers(s) = {} THEN s
    ELSE ReplaceMarkers(s, Put(<<>>, Lowest(Markers(s)), a))

\* QString::arg(a1, a2): the markers with the two lowest numbers, in one pass
ArgTwo(s, a1, a2) ==
    LET m == Markers(s)
    IN IF m = {} THEN s
       ELSE IF Cardinality(m) = 1 THEN ReplaceMarkers(s, Put(<<>>, Lowest(m), a1))
       ELSE ReplaceMarkers(s, Put(Put(<<>>, Lowest(m), a1),
                                  Lowest(m \ {Lowest(m)}), a2))

\* QString("DOWNLOAD_REQUEST|%1|%2|%3").arg(relativePath, fileName)
\*     .arg(QString::number(ourPort))
DownloadRequestText(relativePath, fileName, ourPort) ==
    Arg(ArgTwo(DownloadPrefix \o <<"%", "1", "|", "%", "2", "|", "%", "3">>,
               relativePath, fileName),
        NumberBytes(ourPort))

\* FileTransferManager::downloadSharedFile up to connectToHost; setupReceiver
\* always leaves a Receiver, since startServer() never reports a failure
DownloadSharedFile(srv, relativePath, fileName, busy, anyFree) ==
    LET s1 == SetupReceiver(srv, busy, anyFree)
    IN [s1 EXCEPT !.downloadSockets =
           Append(@, [state |-> "connecting", relativePath |-> relativePath,
                      fileName |-> fileName, ourPort |-> s1.serverPort,
                      written |-> <<>>, timer |-> FALSE, deleted |-> FALSE])]

\* the lambda connected to the download socket's connected signal
OnDownloadConnected(srv, i) ==
    LET d == srv.downloadSockets[i]
    IN [srv EXCEPT !.downloadSockets[i].state = "connected",
                   !.downloadSockets[i].written =
                       Append(@, DownloadRequestText(d.relativePath, d.fileName,
                                                     d.ourPort)),
                   !.downloadSockets[i].timer = TRUE]

\* the callback of QTimer::singleShot(1000, ..): disconnectFromHost, whose
\* disconnected signal hands the socket to deleteLater
OnDownloadTimer(srv, i) ==
    IF srv.downloadSockets[i].state = "connected"
    THEN [srv EXCEPT !.downloadSockets[i].timer = FALSE,
                     !.downloadSockets[i].state = "unconnected",
                     !.downloadSockets[i].deleted = TRUE]
    ELSE [srv EXCEPT !.downloadSockets[i].timer = FALSE]

\* the lambdas connected to errorOccurred and disconnected
OnDownloadError(srv, i) ==
    [srv EXCEPT !.downloadSockets[i].state = "unconnected",
                !.downloadSockets[i].deleted = TRUE]

\* ------------------------------------------- BroadcastDiscoveryService
\* Text of a datagram: a sequence of pieces, each a character or a word that
\* holds no '|', no ',' and no bracket.
DISCOVERY_PORT == 12346
USER_TIMEOUT_MS == 15000

LocalHostname == <<"m">>
Hostnames == {LocalHostname, <<"n">>, <<"o">>}

DiscoveryPrefix == <<"LANDROP_DISCOVERY_V1", "|">>
ResponsePrefix == <<"LANDROP_RESPONSE_V1", "|">>

\* A shared file is [name, size]. Its JSON object has the keys name, path,
\* size and type; here its text is '{' name ':' path ':' size ':' type '}',
\* the characters of the name one piece each. Names are drawn from letters
\* and '|', none of which JSON escapes.
EncodeObject(file) ==
    <<"{">> \o file.name \o <<":">> \o file.name \o <<":">>
        \o NumberBytes(file.size) \o <<":", "file", "}">>

RECURSIVE EncodeObjects(_)
EncodeObjects(files) ==
    IF Len(files) = 1 THEN EncodeObject(files[1])
    ELSE EncodeObject(files[1]) \o <<",">> \o EncodeObjects(Tail(files))

\* QJsonDocument(filesArray).toJson(Compact), "[]" for an empty folder
EncodeListing(files) ==
    IF files = <<>> THEN <<"[", "]">>
    ELSE <<"[">> \o EncodeObjects(files) \o <<"]">>

\* one element of the array: '{' four fields separated by ':' '}'
ParseJsonObject(item) ==
    IF Len(item) < 2 \/ Head(item) # "{" \/ item[Len(item)] # "}"
    THEN [ok |-> FALSE]
    ELSE LET fields == Split(SubSeq(item, 2, Len(item) - 1), ":")
         IN IF Len(fields) # 4 THEN [ok |-> FALSE]
            ELSE [ok |-> TRUE, name |-> fields[1], path |-> fields[2],
                  size |-> fields[3], type |-> fields[4]]

\* QJsonDocument::fromJson with error.error == NoError && doc.isArray():
\* '[' objects separated by ',' ']'
ParseJsonArray(text) ==
    IF Len(text) < 2 \/ Head(text) # "[" \/ text[Len(text)] # "]"
    THEN [ok |-> FALSE, array |-> <<>>]
    ELSE LET body == SubSeq(text, 2, Len(text) - 1)
             items == Split(body, ",")
         IN IF body = <<>> THEN [ok |-> TRUE, array |-> <<>>]
            ELSE IF \A i \in 1..Len(items) : ParseJsonObject(items[i]).ok
            THEN [ok |-> TRUE,
                  array |-> [i \in 1..Len(items) |-> ParseJsonObject(items[i])]]
            ELSE [ok |-> FALSE, array |-> <<>>]

\* QString("LANDROP_.._V1|%1|%2|%3|%4").arg(..)
DiscoveryText(prefix, discoveryPort, transferPort, hostname, sharedFilesJson) ==
    prefix \o NumberBytes(discoveryPort) \o <<"|">> \o NumberBytes(transferPort)
        \o <<"|">> \o hostname \o <<"|">> \o sharedFilesJson

\* the part of the program state the discovery service works on; configPort
\* is Config::getPort()
DiscoveryWorld ==
    [discovery |-> [discovery EXCEPT !.signals = <<>>],
     datagrams |-> datagrams, clock |-> clock, configPort |-> server.configPort]

\* BroadcastDiscoveryService::getTransferPort
GetTransferPort(d) == d.configPort

CommitDiscovery(d) ==
    /\ discovery' = d.discovery
    /\ datagrams' = d.datagrams

\* discoverySocket->writeDatagram
WriteDatagram(d, message, address, port) ==
    [d EXCEPT !.datagrams =
        Append(@, [message |-> message, address |-> address, port |-> port])]

EmitUserListUpdated(d) ==
    [d EXCEPT !.discovery.signals = Append(@, "userListUpdated")]

\* a self check that looks at the address only
IsSelfMessageByIP(localIP, senderIP, hostname) ==
    senderIP = localIP

\* localIP: what getLocalIPAddress returns now
IsSelfMessage(localIP, senderIP, hostname) ==
    senderIP = localIP \/ hostname = LocalHostname

\* the first record with the user's ip or the user's hostname, 0 if none
FirstMatch(users, user) ==
    LET hits == {i \in 1..Len(users) :
                    \/ users[i].ipAddress = user.ipAddress
                    \/ users[i].hostname = user.hostname}
    IN IF hits = {} THEN 0 ELSE CHOOSE i \in hits : \A j \in hits : i <= j

UpdatePeerWithSharedFiles(d, user) ==
    LET users == d.discovery.discoveredUsers
        i == FirstMatch(users, user)
    IN EmitUserListUpdated(
           [d EXCEPT !.discovery.lastSeenTimes = Put(@, user.ipAddress, d.clock),
                     !.discovery.discoveredUsers =
                         IF i = 0 THEN Append(users, user)
                         ELSE [users EXCEPT ![i] = user]])

\* the fields both handlers take from the parts of a message
ParsedUser(parts, senderIP) ==
    LET json == IF Len(parts) >= 5 THEN ParseJsonArray(parts[5])
                ELSE [ok |-> FALSE, array |-> <<>>]
    IN [ipAddress |-> senderIP, hostname |-> parts[4],
        transferPort |-> ToUShort(parts[3]),
        sharedFiles |-> IF json.ok THEN json.array ELSE <<>>]

HandleDiscoveryRequest(d, message, sender, senderIP) ==
    LET parts == Split(message, "|")
    IN IF Len(parts) < 4 THEN d
       ELSE IF IsSelfMessage(d.discovery.localIP, senderIP, parts[4]) THEN d
       ELSE UpdatePeerWithSharedFiles(
                WriteDatagram(d,
                    DiscoveryText(ResponsePrefix, d.discovery.myDiscoveryPort,
                                  GetTransferPort(d), LocalHostname,
                                  d.discovery.cachedSharedFilesJson),
                    sender, ToUShort(parts[2])),
                ParsedUser(parts, senderIP))

\* a response handler that answers like the request handler
HandleDiscoveryResponseReplies(d, message, senderIP) ==
    LET parts == Split(message, "|")
    IN IF Len(parts) < 4 THEN d
       ELSE IF IsSelfMessage(d.discovery.localIP, senderIP, parts[4]) THEN d
       ELSE UpdatePeerWithSharedFiles(
                WriteDatagram(d,
                    DiscoveryText(ResponsePrefix, d.discovery.myDiscoveryPort,
                                  GetTransferPort(d), LocalHostname,
                                  d.discovery.cachedSharedFilesJson),
                    senderIP, ToUShort(parts[2])),
                ParsedUser(parts, senderIP))

HandleDiscoveryResponse(d, message, senderIP) ==
    LET parts == Split(message, "|")
    IN IF Len(parts) < 4 THEN d
       ELSE IF IsSelfMessage(d.discovery.localIP, senderIP, parts[4]) THEN d
       ELSE UpdatePeerWithSharedFiles(d, ParsedUser(parts, senderIP))

\* senderIP.startsWith("::ffff:") ? senderIP.mid(7) : senderIP
MappedPrefix == <<"::ffff:">>
StripMapped(address) ==
    IF StartsWith(address, MappedPrefix)
    THEN SubSeq(address, Len(MappedPrefix) + 1, Len(address))
    ELSE address

\* handleDiscoveryMessage with one datagram pending
HandleDiscoveryMessage(d, message, sender) ==
    IF d.discovery.discoverySocket = "null" \/ ~d.discovery.discovering THEN d
    ELSE IF StartsWith(message, DiscoveryPrefix)
    THEN HandleDiscoveryRequest(d, message, sender, StripMapped(sender))
    ELSE IF StartsWith(message, ResponsePrefix)
    THEN HandleDiscoveryResponse(d, message, StripMapped(sender))
    ELSE d

\* lastSeenTimes.value(ip, 0)
LastSeen(lastSeenTimes, ip) ==
    IF ip \in DOMAIN lastSeenTimes THEN lastSeenTimes[ip] ELSE 0

RemoveAt(seq, i) == SubSeq(seq, 1, i - 1) \o SubSeq(seq, i + 1, Len(seq))

\* the loop of cleanupExpiredUsers, from record i down to the first
RECURSIVE CleanupLoop(_, _, _)
CleanupLoop(c, i, currentTime) ==
    IF i = 0 THEN c
    ELSE LET ip == c.discoveredUsers[i].ipAddress
             hostname == c.discoveredUsers[i].hostname
             timeSinceLastSeen == currentTime - LastSeen(c.lastSeenTimes, ip)
         IN IF \/ ip = c.localIP \/ hostname = LocalHostname
               \/ timeSinceLastSeen > USER_TIMEOUT_MS
            THEN CleanupLoop([discoveredUsers |-> RemoveAt(c.discoveredUsers, i),
                              lastSeenTimes |-> Del(c.lastSeenTimes, ip),
                              anyRemoved |-> TRUE, localIP |-> c.localIP],
                             i - 1, currentTime)
            ELSE CleanupLoop(c, i - 1, currentTime)

\* a cleanup that does not look for records with the local address
CleanupExpiredUsersKeepsSelf(d) ==
    LET c == CleanupLoop([discoveredUsers |-> d.discovery.discoveredUsers,
                          lastSeenTimes |-> d.discovery.lastSeenTimes,
                          anyRemoved |-> FALSE,
                          localIP |-> <<>>],
                         Len(d.discovery.discoveredUsers), d.clock)
        d1 == [d EXCEPT !.discovery.discoveredUsers = c.discoveredUsers,
                        !.discovery.lastSeenTimes = c.lastSeenTimes]
    IN IF c.anyRemoved THEN EmitUserListUpdated(d1) ELSE d1

CleanupExpiredUsers(d) ==
    LET c == CleanupLoop([discoveredUsers |-> d.discovery.discoveredUsers,
                          lastSeenTimes |-> d.discovery.lastSeenTimes,
                          anyRemoved |-> FALSE,
                          localIP |-> d.discovery.localIP],
                         Len(d.discovery.discoveredUsers), d.clock)
        d1 == [d EXCEPT !.discovery.discoveredUsers = c.discoveredUsers,
                        !.discovery.lastSeenTimes = c.lastSeenTimes]
    IN IF c.anyRemoved THEN EmitUserListUpdated(d1) ELSE d1

BroadcastAddress == <<"255.255.255.255">>

SendDiscoveryBroadcast(d) ==
    WriteDatagram(d,
        DiscoveryText(DiscoveryPrefix, d.discovery.myDiscoveryPort,
                      GetTransferPort(d), LocalHostname,
                      d.discovery.cachedSharedFilesJson),
        BroadcastAddress, DISCOVERY_PORT)

PerformPeriodicBroadcast(d) ==
    IF ~d.discovery.discovering \/ d.discovery.discoverySocket = "null" THEN d
    ELSE SendDiscoveryBroadcast(d)

\* a start that goes on without a bound socket
StartDiscoveryIgnoresBind(d, bindOk) ==
    IF d.discovery.discovering THEN d
    ELSE [d EXCEPT !.discovery.discoverySocket = IF bindOk THEN "bound" ELSE "null",
                   !.discovery.myDiscoveryPort = IF bindOk THEN DISCOVERY_PORT ELSE 0,
                   !.discovery.discovering = TRUE,
                   !.discovery.broadcastTimer = TRUE,
                   !.discovery.cleanupTimer = TRUE,
                   !.discovery.signals = Append(@, "discoveryStarted")]

\* bindOk: whether the discovery port could be bound
StartDiscovery(d, bindOk) ==
    IF d.discovery.discovering THEN d
    ELSE IF ~bindOk THEN [d EXCEPT !.discovery.discoverySocket = "null"]
    ELSE LET d1 == [d EXCEPT !.discovery.discoverySocket = "bound",
                             !.discovery.myDiscoveryPort = DISCOVERY_PORT,
                             !.discovery.discovering = TRUE,
                             !.discovery.discoveredUsers = <<>>,
                             !.discovery.lastSeenTimes = <<>>,
                             !.discovery.broadcastTimer = TRUE,
                             !.discovery.cleanupTimer = TRUE]
             d2 == PerformPeriodicBroadcast(d1)
         IN [d2 EXCEPT !.discovery.signals = Append(@, "discoveryStarted")]

StopDiscovery(d) ==
    IF ~d.discovery.discovering THEN d
    ELSE [d EXCEPT !.discovery.discovering = FALSE,
                   !.discovery.broadcastTimer = FALSE,
                   !.discovery.cleanupTimer = FALSE,
                   !.discovery.discoverySocket = "null",
                   !.discovery.myDiscoveryPort = 0,
                   !.discovery.discoveredUsers = <<>>,
                   !.discovery.lastSeenTimes = <<>>,
                   !.discovery.signals = Append(@, "discoveryStopped")]

\* files: what entryInfoList finds in the shared folder, sorted by name
ScanSharedFilesDirectly(d, files) ==
    [d EXCEPT !.discovery.cachedSharedFilesJson = EncodeListing(files),
              !.discovery.sharedFolder = files]

SetSharedFileManager(d, files) ==
    [ScanSharedFilesDirectly(d, files) EXCEPT !.discovery.fileScanTimer = TRUE]

\* the datagrams the network delivers
WellFormedTexts ==
    {DiscoveryText(prefix, DISCOVERY_PORT, TransferPort, hostname,
                   EncodeListing(<<[name |-> <<"a">>, size |-> 1]>>)) :
        prefix \in {DiscoveryPrefix, ResponsePrefix}, hostname \in Hostnames}
BadJsonTexts ==
    {DiscoveryText(prefix, DISCOVERY_PORT, TransferPort, <<"n">>, <<"[", "{">>) :
        prefix \in {DiscoveryPrefix, ResponsePrefix}}
ShortTexts ==
    {prefix \o NumberBytes(DISCOVERY_PORT) \o <<"|">> \o NumberBytes(TransferPort) :
        prefix \in {DiscoveryPrefix, ResponsePrefix}}
UnknownTexts ==
    {<<"LANDROP_HELLO_V1", "|">> \o NumberBytes(DISCOVERY_PORT) \o <<"|">>
        \o NumberBytes(TransferPort) \o <<"|", "n", "|", "[", "]">>}
Messages == WellFormedTexts \cup BadJsonTexts \cup ShortTexts \cup UnknownTexts
\* the first peer is seen through its IPv4-mapped address
SenderAddresses == {LocalIP, MappedPrefix \o ForeignIP, <<"3">>}

transferVars ==
    <<sessions, senderToSession, receivedFileToSession, pendingBatchFiles,
      pendingBatchSockets, batchTimer, nextSessionId, cleanups, senders,
      pendingFiles, socks, dialogs, crashed, destroyed, statusLog, progBy,
      created, batchLog, rcvEvents, offered, server>>

\* setupServices creates the discovery service; its constructor starts discovery
DiscoveryServiceCreated(bindOk) ==
    /\ ~discovery.exists
    /\ CommitDiscovery(StartDiscovery(
           [DiscoveryWorld EXCEPT !.discovery.exists = TRUE], bindOk))
    /\ UNCHANGED <<clock, received, lastDatagram, heard>>
    /\ UNCHANGED transferVars

\* readyRead of the discovery socket
DatagramArrives(message, sender) ==
    /\ discovery.exists
    /\ discovery.discoverySocket = "bound"
    /\ received < MaxDatagrams
    /\ LET d == HandleDiscoveryMessage(DiscoveryWorld, message, sender)
       IN /\ CommitDiscovery(d)
          /\ heard' = IF d.discovery.signals = <<"userListUpdated">>
                      THEN Put(heard, <<StripMapped(sender),
                                        Split(message, "|")[4]>>, clock)
                      ELSE heard
    /\ received' = received + 1
    /\ lastDatagram' = [message |-> message, sender |-> sender]
    /\ UNCHANGED clock
    /\ UNCHANGED transferVars

\* handleDiscoveryMessage runs while the service has no socket
ReadyReadUnbound(message, sender) ==
    /\ discovery.exists
    /\ discovery.discoverySocket = "null"
    /\ received < MaxDatagrams
    /\ CommitDiscovery(HandleDiscoveryMessage(DiscoveryWorld, message, sender))
    /\ received' = received + 1
    /\ lastDatagram' = [message |-> message, sender |-> sender]
    /\ UNCHANGED <<clock, heard>>
    /\ UNCHANGED transferVars

\* timeout of cleanupTimer
CleanupTick ==
    /\ discovery.exists
    /\ discovery.cleanupTimer
    /\ CommitDiscovery(CleanupExpiredUsers(DiscoveryWorld))
    /\ UNCHANGED <<clock, received, lastDatagram, heard>>
    /\ UNCHANGED transferVars

\* timeout of broadcastTimer
BroadcastTick ==
    /\ discovery.exists
    /\ discovery.broadcastTimer
    /\ Len(datagrams) < MaxSent
    /\ CommitDiscovery(PerformPeriodicBroadcast(DiscoveryWorld))
    /\ UNCHANGED <<clock, received, lastDatagram, heard>>
    /\ UNCHANGED transferVars

\* the folders a scan can find
SharedFiles == [name : {<<"a">>, <<"a", "|", "b">>}, size : {1, 10}]
Listings ==
    {files \in UNION {[1..n -> SharedFiles] : n \in 0..MaxShared} :
        \A i \in 1..(Len(files) - 1) : NameLess(files[i].name, files[i + 1].name)}

\* setupServices hands the shared file manager to the service
SetSharedFileManagerCalled(files) ==
    /\ discovery.exists
    /\ ~discovery.fileScanTimer
    /\ CommitDiscovery(SetSharedFileManager(DiscoveryWorld, files))
    /\ UNCHANGED <<clock, received, lastDatagram, heard>>
    /\ UNCHANGED transferVars

\* timeout of fileScanTimer
FileScanTick(files) ==
    /\ discovery.exists
    /\ discovery.fileScanTimer
    /\ CommitDiscovery(ScanSharedFilesDirectly(DiscoveryWorld, files))
    /\ UNCHANGED <<clock, received, lastDatagram, heard>>
    /\ UNCHANGED transferVars

\* the user list widget is destroyed, or the service is
StopDiscoveryCalled ==
    /\ discovery.exists
    /\ CommitDiscovery(StopDiscovery(DiscoveryWorld))
    /\ UNCHANGED <<clock, received, lastDatagram, heard>>
    /\ UNCHANGED transferVars

\* the host gets another address: getLocalIPAddress returns it from now on
LocalAddressChanged(ip) ==
    /\ discovery.exists
    /\ ip # discovery.localIP
    /\ discovery' = [discovery EXCEPT !.localIP = ip, !.signals = <<>>]
    /\ UNCHANGED <<datagrams, clock, received, lastDatagram, heard>>
    /\ UNCHANGED transferVars

\* QDateTime::currentMSecsSinceEpoch moves on
ClockTick ==
    /\ clock < StartTime + MaxTicks * ClockStep
    /\ clock' = clock + ClockStep
    /\ UNCHANGED <<discovery, datagrams, received, lastDatagram, heard>>
    /\ UNCHANGED transferVars

NextDisc ==
    \/ \E bindOk \in BOOLEAN : DiscoveryServiceCreated(bindOk)
    \/ \E message \in Messages, sender \in SenderAddresses :
           DatagramArrives(message, sender)
    \/ CleanupTick
    \/ BroadcastTick
    \/ ClockTick

SpecDisc == Init /\ [][NextDisc]_vars

\* the requests of two peers
LifeMessages ==
    {DiscoveryText(DiscoveryPrefix, DISCOVERY_PORT, TransferPort, hostname,
                   <<"[", "]">>) : hostname \in {<<"n">>, <<"o">>}}

\* an empty shared folder and one with a file
LifeListings == {<<>>, <<[name |-> <<"a">>, size |-> 1]>>}

\* the service from its creation to its stop, with scans of the shared folder
\* and a change of the host's address
NextLife ==
    \/ \E bindOk \in BOOLEAN : DiscoveryServiceCreated(bindOk)
    \/ \E files \in LifeListings : SetSharedFileManagerCalled(files)
    \/ \E files \in LifeListings : FileScanTick(files)
    \/ StopDiscoveryCalled
    \/ \E ip \in {LocalIP, ForeignIP} : LocalAddressChanged(ip)
    \/ \E message \in LifeMessages, sender \in {ForeignIP, <<"3">>} :
           DatagramArrives(message, sender)
    \/ \E message \in LifeMessages, sender \in {ForeignIP} :
           ReadyReadUnbound(message, sender)
    \/ CleanupTick
    \/ BroadcastTick
    \/ ClockTick

SpecLife == Init /\ [][NextLife]_vars

\* the service scans the shared folder and broadcasts what it found
NextScan ==
    \/ \E bindOk \in BOOLEAN : DiscoveryServiceCreated(bindOk)
    \/ \E files \in Listings : SetSharedFileManagerCalled(files)
    \/ \E files \in Listings : FileScanTick(files)
    \/ BroadcastTick

SpecScan == Init /\ [][NextScan]_vars


\* files are sent to a server on another host
NextOut ==
    \/ \E file \in SendableFiles({<<"a">>}) : SendFilesToUsers(file, ForeignIP)
    \/ SenderNext
    \/ \E s \in Senders : SenderSocketError(s)
    \/ \E s \in Senders, line \in {OKLine, NOLine, BadLine} : ForeignReply(s, line)

SpecOut == Init /\ [][NextOut]_vars

\* one file is sent to the Receiver of this very instance
SendToSelf(file) ==
    /\ Cardinality(Senders) < MaxLoopSenders
    /\ SendFilesToUsers(file, LocalIP)

\* the names of the files sent to the local Receiver: '|' is a legal
\* character of a file name
LoopNames == FileNames \cup {<<"a", "|", "b">>}

NextLoop ==
    \/ \E file \in SendableFiles(LoopNames) : SendToSelf(file)
    \/ SenderNext
    \/ \E s \in Senders : SenderRemoteClosed(s)
    \/ \E s \in Senders : SenderReadyRead(s)
    \/ ReceiverNext

SpecLoop == Init /\ [][NextLoop]_vars

\* peers on other hosts offer files to the Receiver
NextIn ==
    \/ \E line \in PeerLines : PeerConnect(line)
    \/ \E k \in Sockets, n \in 1..MaxPeerBytes : PeerSendBytes(k, n)
    \/ \E k \in Sockets : PeerClose(k)
    \/ ReceiverNext

SpecIn == Init /\ [][NextIn]_vars

\* peers connect with first lines of every kind; the Receiver reads them
NextMeta ==
    \/ \E line \in PeerLines \cup MalformedLines \cup DownloadLines :
           PeerConnect(line)
    \/ \E k \in Sockets, writeFails \in BOOLEAN : ReceiverReadyRead(k, writeFails)

SpecMeta == Init /\ [][NextMeta]_vars

\* the ports another program may hold
BusySets == SUBSET {TransferPort, OtherPort}

\* MainWindow::setupServices calls setupReceiver
SetupReceiverCalled(busy, anyFree) ==
    /\ ~crashed /\ ~destroyed
    /\ server.started = "none"
    /\ server' = SetupReceiver(server, busy, anyFree)
    /\ UNCHANGED <<sessions, senderToSession, receivedFileToSession,
                   pendingBatchFiles, pendingBatchSockets, batchTimer,
                   nextSessionId, cleanups, senders, pendingFiles, socks, dialogs,
                   crashed, destroyed, statusLog, progBy, created, batchLog,
                   rcvEvents, offered>>
    /\ UNCHANGED discoveryVars

\* MainWindow::modifyConfig with a new port, before any peer has connected
PortChanged(newPort, busy, anyFree) ==
    /\ ~crashed /\ ~destroyed
    /\ server.started # "none"
    /\ socks = <<>>
    /\ newPort # server.configPort
    /\ server' = RestartReceiver([server EXCEPT !.configPort = newPort], busy, anyFree)
    /\ UNCHANGED <<sessions, senderToSession, receivedFileToSession,
                   pendingBatchFiles, pendingBatchSockets, batchTimer,
                   nextSessionId, cleanups, senders, pendingFiles, socks, dialogs,
                   crashed, destroyed, statusLog, progBy, created, batchLog,
                   rcvEvents, offered>>
    /\ UNCHANGED discoveryVars

\* the names of the files a user can ask for
RequestNames == {<<"a">>, <<"a", "%", "1">>, <<"a", "|", "b">>}

\* the user asks for a shared file of a peer; its path is its name
DownloadSharedFileCalled(name, busy, anyFree) ==
    /\ ~crashed /\ ~destroyed
    /\ Len(server.downloadSockets) < MaxDownloads
    /\ server' = DownloadSharedFile(server, name, name, busy, anyFree)
    /\ UNCHANGED <<sessions, senderToSession, receivedFileToSession,
                   pendingBatchFiles, pendingBatchSockets, batchTimer,
                   nextSessionId, cleanups, senders, pendingFiles, socks, dialogs,
                   crashed, destroyed, statusLog, progBy, created, batchLog,
                   rcvEvents, offered>>
    /\ UNCHANGED discoveryVars

\* an event of download socket i runs its handler
DownloadSocketEvent(i, handled) ==
    /\ ~crashed /\ ~destroyed
    /\ server' = handled
    /\ UNCHANGED <<sessions, senderToSession, receivedFileToSession,
                   pendingBatchFiles, pendingBatchSockets, batchTimer,
                   nextSessionId, cleanups, senders, pendingFiles, socks, dialogs,
                   crashed, destroyed, statusLog, progBy, created, batchLog,
                   rcvEvents, offered>>
    /\ UNCHANGED discoveryVars

DownloadSocketConnected(i) ==
    /\ server.downloadSockets[i].state = "connecting"
    /\ DownloadSocketEvent(i, OnDownloadConnected(server, i))

DownloadTimerFires(i) ==
    /\ server.downloadSockets[i].timer
    /\ DownloadSocketEvent(i, OnDownloadTimer(server, i))

\* the connection fails, breaks, or the peer closes it
DownloadSocketError(i) ==
    /\ server.downloadSockets[i].state \in {"connecting", "connected"}
    /\ DownloadSocketEvent(i, OnDownloadError(server, i))

\* a peer reaches the server only while it listens
PeerConnectsToServer(line) ==
    /\ server.listening
    /\ PeerConnect(line)

\* the server is started, the port is changed, peers connect
NextPort ==
    \/ \E busy \in BusySets, anyFree \in BOOLEAN : SetupReceiverCalled(busy, anyFree)
    \/ \E newPort \in {TransferPort, OtherPort}, busy \in BusySets, anyFree \in BOOLEAN :
           PortChanged(newPort, busy, anyFree)
    \/ \E name \in RequestNames, busy \in BusySets, anyFree \in BOOLEAN :
           DownloadSharedFileCalled(name, busy, anyFree)
    \/ \E i \in DOMAIN server.downloadSockets : DownloadSocketConnected(i)
    \/ \E i \in DOMAIN server.downloadSockets : DownloadTimerFires(i)
    \/ \E i \in DOMAIN server.downloadSockets : DownloadSocketError(i)
    \/ \E line \in PeerLines : PeerConnectsToServer(line)
    \/ \E k \in Sockets, writeFails \in BOOLEAN : ReceiverReadyRead(k, writeFails)

SpecPort == Init /\ [][NextPort]_vars

\* the discovery service is created, its port free or taken, while a file is
\* sent to the Receiver of this instance
NextOff ==
    \/ \E bindOk \in BOOLEAN : DiscoveryServiceCreated(bindOk)
    \/ \E message \in WellFormedTexts, sender \in {<<"3">>} :
           ReadyReadUnbound(message, sender)
    \/ CleanupTick
    \/ BroadcastTick
    \/ NextLoop

SpecOff == Init /\ [][NextOff]_vars

\* files are sent to another host until the application quits
NextDown ==
    \/ NextOut
    \/ ManagerDestroyed
SpecDown == Init /\ [][NextDown]_vars

\* offers and decisions only: no payload, no peer-side close
NextBatch ==
    \/ \E fileName \in FileNames : PeerOffer(fileName)
    \/ \E k \in Sockets, writeFails \in BOOLEAN : ReceiverReadyRead(k, writeFails)
    \/ BatchTimerFire
    \/ \E d \in Decisions(FileNames) : DialogReturn(d)
SpecBatch == Init /\ [][NextBatch]_vars

\* MainWindow::setupServices creates the discovery service before it calls
\* setupReceiver
ReceiverSetUp(busy, anyFree) ==
    /\ discovery.exists
    /\ SetupReceiverCalled(busy, anyFree)

\* the service announces the transfer port while the Receiver is started and
\* restarted
NextAnnounce ==
    \/ \E bindOk \in BOOLEAN : DiscoveryServiceCreated(bindOk)
    \/ \E busy \in BusySets, anyFree \in BOOLEAN : ReceiverSetUp(busy, anyFree)
    \/ \E newPort \in {TransferPort, OtherPort}, busy \in BusySets, anyFree \in BOOLEAN :
           PortChanged(newPort, busy, anyFree)
    \/ BroadcastTick
    \/ \E message \in LifeMessages : DatagramArrives(message, ForeignIP)

SpecAnnounce == Init /\ [][NextAnnounce]_vars

Next == NextOut \/ NextLoop \/ NextIn \/ NextBatch \/ NextDown \/ NextDisc \/ NextMeta \/ NextPort \/ NextOff \/ NextLife \/ NextScan \/ NextAnnounce

Spec == Init /\ [][Next]_vars

\* ---------------------------------------------------------------- claims
Statuses(sessionId) ==
    [i \in 1..Len(statusLog[sessionId]) |-> statusLog[sessionId][i].st]

IsPrefix(a, b) == Len(a) <= Len(b) /\ SubSeq(b, 1, Len(a)) = a

Terminal == {FINISHED, CANCELLED, ERROR}

\* the Receiver socket that Sender s is connected to answered with exactly OK,
\* the source file can be read and nothing disturbed the transfer
AcceptedUndisturbed(s) ==
    /\ senders[s].firstReply = "OK"
    /\ senders[s].freadable
    /\ ~senders[s].faulted
    /\ senders[s].timedOut = "none"
    /\ senders[s].conn \in Sockets
    /\ socks[senders[s].conn].wrote = <<OKLine>>
    /\ ~socks[senders[s].conn].wfail

\* C1: a file of any size sent to a receiver that replies OK, with no fault:
\* the session's statuses are WAITING, IN_PROGRESS, FINISHED in this order, and
\* the receiver has received the whole file when its socket closes.
C1_AcceptedTransferFinishes ==
    \A s \in Senders :
        AcceptedUndisturbed(s) =>
            LET k == senders[s].conn
            IN /\ IsPrefix(Statuses(senders[s].session),
                           <<WAITING, IN_PROGRESS, FINISHED>>)
               /\ senders[s].socket = "null" =>
                      Statuses(senders[s].session) =
                          <<WAITING, IN_PROGRESS, FINISHED>>
               /\ socks[k].srv = "closed" =>
                      /\ rcvEvents[k] # <<>>
                      /\ rcvEvents[k][Len(rcvEvents[k])].sig = FINISHED
                      /\ rcvEvents[k][Len(rcvEvents[k])].recv = senders[s].fsize

\* C2: sendFilesToUsers with a path that does not exist creates no session.
C2_NoSessionForMissingFile ==
    \A s \in Senders :
        ~senders[s].fexists =>
            /\ s \notin DOMAIN senderToSession
            /\ senders[s].session \notin created
            /\ senders[s].session \notin DOMAIN sessions

\* C3: when the Sender reads NO as the receiver's decision, the session goes
\* from WAITING directly to CANCELLED and the Sender's socket is released.
C3_RefusalCancels ==
    \A s \in Senders :
        senders[s].firstReply = "NO" =>
            /\ Statuses(senders[s].session) = <<WAITING, CANCELLED>>
            /\ senders[s].socket = "null"

C3_Witness ==
    \E s \in Senders :
        /\ senders[s].firstReply = "NO"
        /\ senders[s].alive
        /\ senders[s].session \in DOMAIN sessions
        /\ sessions[senders[s].session].status = CANCELLED

\* C4: when the connect timer or the response timer fires, the session's
\* status becomes ERROR and the Sender's socket is closed.
C4_TimeoutIsError ==
    \A s \in Senders :
        senders[s].timedOut # "none" =>
            /\ Len(statusLog[senders[s].session]) = 2
            /\ Statuses(senders[s].session) = <<WAITING, ERROR>>
            /\ senders[s].socket = "null"
            /\ ~senders[s].connectionTimer
            /\ ~senders[s].responseTimer

C4_Witness ==
    /\ \E s \in Senders :
        /\ senders[s].timedOut = "response"
        /\ senders[s].session \in DOMAIN sessions
        /\ sessions[senders[s].session].status = ERROR
    /\ \E s \in Senders :
        /\ senders[s].timedOut = "connect"
        /\ senders[s].sigLog = <<"error">>

\* C5: a Sender writes no payload before it has read OK; on NO it reports
\* refusal, on any other reply an error, and writes no payload in both cases.
C5_PayloadOnlyAfterOK ==
    \A s \in Senders :
        /\ senders[s].payload > 0 =>
               senders[s].firstReply = "OK" /\ Head(senders[s].sigLog) = "accepted"
        /\ senders[s].firstReply = "OK" => Head(senders[s].sigLog) = "accepted"
        /\ senders[s].firstReply = "NO" =>
               senders[s].sigLog = <<"refused">> /\ senders[s].payload = 0
        /\ senders[s].firstReply = "other" =>
               senders[s].sigLog = <<"error">> /\ senders[s].payload = 0

C5_Witness ==
    /\ \E s \in Senders : senders[s].firstReply = "other"
    /\ \E s \in Senders : senders[s].firstReply = "OK" /\ senders[s].payload > 1

Nondecreasing(q) == \A i, j \in 1..Len(q) : i <= j => q[i] <= q[j]

\* every byte of the file was handed to the socket after the receiver's OK
WholeFileSent(s) ==
    senders[s].firstReply = "OK" /\ senders[s].payload = senders[s].fsize

\* C6: the progress values reported for an outbound transfer never decrease,
\* for a non-empty file 100 is reported if and only if the whole file was
\* handed to the socket, and bytesSent equals the file size when completion
\* is signalled.
C6_ProgressExact ==
    \A s \in Senders :
        /\ Nondecreasing(senders[s].progLog)
        /\ senders[s].fsize > 0 =>
               ((\E i \in 1..Len(senders[s].progLog) :
                     senders[s].progLog[i] = 100) <=> WholeFileSent(s))
        /\ senders[s].sentAtFinish >= 0 =>
               senders[s].sentAtFinish = senders[s].fsize

\* C7: when an inbound socket with a pending entry disconnects, the Receiver
\* reports CANCELLED if bytesReceived is smaller than the declared size and
\* otherwise a received-successfully notification followed by FINISHED, and
\* the pending entry of the socket is removed.
C7_DisconnectReports ==
    \A k \in Sockets :
        socks[k].srv = "closed" /\ rcvEvents[k] # <<>> =>
            LET n == Len(rcvEvents[k])
                e == rcvEvents[k][n]
            IN /\ k \notin DOMAIN pendingFiles
               /\ e.recv < e.size => e.sig = CANCELLED
               /\ e.recv >= e.size =>
                      /\ e.sig = FINISHED
                      /\ rcvEvents[k][n - 1].sig = "received"
                      /\ rcvEvents[k][n - 1].recv = e.recv

C7_Witness ==
    /\ \E k \in Sockets :
          /\ socks[k].srv = "closed"
          /\ rcvEvents[k] # <<>>
          /\ rcvEvents[k][Len(rcvEvents[k])].sig = FINISHED
          /\ rcvEvents[k][Len(rcvEvents[k])].size > 0
    /\ \E k \in Sockets :
          /\ socks[k].srv = "closed"
          /\ rcvEvents[k] # <<>>
          /\ rcvEvents[k][Len(rcvEvents[k])].sig = CANCELLED

DistinctNames(offers) ==
    \A a, b \in offers : a.name = b.name => a = b

\* C8: two or more offers with distinct file names parsed in one debounce
\* window (since the batch timer last fired) are all in the one batch event
\* the timer emits when it fires, each with its own socket, and in no earlier
\* event; once the flush is over (no dialog open, timer idle) the pending
\* batch is empty.
C8_OneBatchWithAll ==
    /\ \A i \in 1..Len(batchLog) :
          DistinctNames(batchLog[i].offered)
              /\ Cardinality(batchLog[i].offered) >= 2 =>
              \A o \in batchLog[i].offered :
                  /\ o.name \in DOMAIN batchLog[i].sockets
                  /\ batchLog[i].sockets[o.name] = o.sock
                  /\ o.name \in DOMAIN batchLog[i].files
                  /\ \A j \in 1..Len(batchLog) :
                         j < i => o \notin batchLog[j].offered
    /\ dialogs = <<>> /\ ~batchTimer =>
          pendingBatchFiles = <<>> /\ pendingBatchSockets = <<>> /\ offered = {}

\* C9: once a session is FINISHED, CANCELLED or ERROR, no later event changes
\* its status.
C9_TerminalStays ==
    [][\A sessionId \in DOMAIN sessions \cap DOMAIN sessions' :
           sessions[sessionId].status \in Terminal =>
               sessions'[sessionId].status = sessions[sessionId].status]_vars

\* C10: an event of a Sender or of an inbound socket changes the status and
\* the progress of the session created for that Sender or socket only.
C10_OwnSessionOnly ==
    \A sessionId \in DOMAIN statusLog :
        /\ \A i \in 1..Len(statusLog[sessionId]) :
              LET by == statusLog[sessionId][i].by
              IN /\ by > 0 => senders[by].session = sessionId
                 /\ by < 0 => socks[0 - by].session = sessionId
        /\ progBy[sessionId] > 0 => senders[progBy[sessionId]].session = sessionId
        /\ progBy[sessionId] < 0 => socks[0 - progBy[sessionId]].session = sessionId

TerminalSignals == {"refused", "finished", "error"}

TerminalSignalled(s) ==
    \E i \in 1..Len(senders[s].sigLog) : senders[s].sigLog[i] \in TerminalSignals

\* C11: a Sender that signalled refusal, completion or error has its session's
\* final status published; it is deleted at most once, never inside a slot
\* run by its own handler, and until it is deleted (by the deferred callback
\* or by the manager's destructor) its deferred callback is pending.
C11_DeferredSingleTeardown ==
    \A s \in Senders :
        /\ senders[s].deletes <= 1
        /\ senders[s].deletedBy # "handler"
        /\ ~crashed
        /\ TerminalSignalled(s) =>
               /\ Statuses(senders[s].session)[
                      Len(statusLog[senders[s].session])] \in Terminal
               /\ \/ senders[s].deletes = 1
                  \/ \E cb \in cleanups : cb.sender = s
               /\ senders[s].deletedBy = "callback" =>
                      \A cb \in cleanups : cb.sender # s

C11_Witness ==
    /\ \E s \in Senders :
          TerminalSignalled(s) /\ senders[s].deletedBy = "callback"
    /\ \E s \in Senders :
          TerminalSignalled(s) /\ senders[s].deletedBy = "destructor"

\* the session is in the table or a map still points to it
SessionKept(sessionId) ==
    \/ sessionId \in DOMAIN sessions
    \/ \E x \in DOMAIN senderToSession : senderToSession[x] = sessionId
    \/ \E x \in DOMAIN receivedFileToSession :
           receivedFileToSession[x] = sessionId

\* no timer runs, no callback is pending, no dialog is open and every
\* connection is closed: nothing happens any more unless a new transfer starts
Idle ==
    /\ ~batchTimer
    /\ dialogs = <<>>
    /\ cleanups = {}
    /\ \A k \in Sockets : socks[k].srv = "closed"
    /\ \A s \in Senders :
          \/ ~senders[s].alive
          \/ /\ senders[s].socket = "null"
             /\ ~senders[s].connectionTimer
             /\ ~senders[s].responseTimer

\* C12: once every event that was due has run, a session that has reached
\* FINISHED, CANCELLED or ERROR is out of the session table and out of the
\* Sender and file-name maps.
C12_TerminalSessionsRemoved ==
    Idle /\ ~crashed =>
        \A sessionId \in DOMAIN statusLog :
            Statuses(sessionId)[Len(statusLog[sessionId])] \in Terminal =>
                ~SessionKept(sessionId)


\* C14: after any sequence of discovery messages and cleanup ticks no two
\* records of the peer table share an ip and no two share a hostname.
C14_OneRecordPerIdentity ==
    \A i, j \in 1..Len(discovery.discoveredUsers) :
        i # j => /\ discovery.discoveredUsers[i].ipAddress
                        # discovery.discoveredUsers[j].ipAddress
                 /\ discovery.discoveredUsers[i].hostname
                        # discovery.discoveredUsers[j].hostname


\* words of the discovery claims, read off a datagram and its sender address
IsRequest(message) == StartsWith(message, DiscoveryPrefix)
IsResponse(message) == StartsWith(message, ResponsePrefix)
Fields(message) == Split(message, "|")
SenderIPOf(dg) == StripMapped(dg.sender)
HostnameOf(dg) == Fields(dg.message)[4]
SelfDatagram(dg) ==
    /\ IsRequest(dg.message) \/ IsResponse(dg.message)
    /\ \/ SenderIPOf(dg) = discovery.localIP
       \/ Len(Fields(dg.message)) >= 4 /\ HostnameOf(dg) = LocalHostname
Malformed(dg) ==
    \/ ~IsRequest(dg.message) /\ ~IsResponse(dg.message)
    \/ Len(Fields(dg.message)) < 4
    \/ Len(Fields(dg.message)) >= 5 /\ ~ParseJsonArray(Fields(dg.message)[5]).ok
ValidDatagram(dg) ==
    /\ IsRequest(dg.message) \/ IsResponse(dg.message)
    /\ Len(Fields(dg.message)) = 5
    /\ ParseJsonArray(Fields(dg.message)[5]).ok
    /\ ~SelfDatagram(dg)
\* the step processed the datagram now held in lastDatagram
Processed == received' = received + 1
\* the table holds the peer the datagram describes
Upserted(users, dg) ==
    \E i \in 1..Len(users) :
        /\ users[i].ipAddress = SenderIPOf(dg)
        /\ users[i].hostname = HostnameOf(dg)
        /\ users[i].transferPort = ToUShort(Fields(dg.message)[3])
        /\ users[i].sharedFiles = ParseJsonArray(Fields(dg.message)[5]).array

\* C13: a request or response whose sender ip is the local ip, or whose
\* hostname is the local hostname, leaves the peer table as it was and makes
\* the service send no datagram.
C13_SelfMessagesDiscarded ==
    [][Processed /\ SelfDatagram(lastDatagram') =>
          /\ discovery'.discoveredUsers = discovery.discoveredUsers
          /\ datagrams' = datagrams]_vars

\* a request with the local hostname came from another host while a peer is
\* in the table
C13_Witness ==
    /\ received > 0
    /\ IsRequest(lastDatagram.message)
    /\ Len(Fields(lastDatagram.message)) >= 4
    /\ HostnameOf(lastDatagram) = LocalHostname
    /\ SenderIPOf(lastDatagram) # LocalIP
    /\ discovery.discoveredUsers # <<>>

\* C15: a peer whose message was just processed is in the peer table, and
\* after a cleanup tick no record is left whose peer has had no message
\* processed for longer than the timeout.
C15_SeenPresentStaleRemoved ==
    [][/\ Processed /\ ValidDatagram(lastDatagram') =>
              Upserted(discovery'.discoveredUsers, lastDatagram')
       /\ CleanupTick =>
              \A i \in 1..Len(discovery'.discoveredUsers) :
                  LET user == discovery'.discoveredUsers[i]
                  IN clock - heard[<<user.ipAddress, user.hostname>>]
                         <= USER_TIMEOUT_MS]_vars

\* C16: a valid request from another host is answered with exactly one
\* datagram, sent to its sender, and its sender is put in the table; a valid
\* response from another host puts its sender in the table and makes the
\* service send nothing.
C16_RequestAnsweredOnceResponseNever ==
    [][Processed /\ ValidDatagram(lastDatagram') =>
          /\ Upserted(discovery'.discoveredUsers, lastDatagram')
          /\ IF IsRequest(lastDatagram'.message)
             THEN /\ Len(datagrams') = Len(datagrams) + 1
                  /\ SubSeq(datagrams', 1, Len(datagrams)) = datagrams
                  /\ datagrams'[Len(datagrams')].address = lastDatagram'.sender
                  /\ datagrams'[Len(datagrams')].port
                         = ToUShort(Fields(lastDatagram'.message)[2])
                  /\ IsResponse(datagrams'[Len(datagrams')].message)
             ELSE datagrams' = datagrams]_vars

\* a valid response from another host was processed, after a valid request
\* had been answered
C16_Witness ==
    /\ received > 1
    /\ ValidDatagram(lastDatagram)
    /\ IsResponse(lastDatagram.message)
    /\ Upserted(discovery.discoveredUsers, lastDatagram)
    /\ \E i \in 1..Len(datagrams) : IsResponse(datagrams[i].message)

\* C17: a datagram with an unknown prefix, with too few fields, or with a
\* shared-files field that is no JSON array is dropped: the peer table stays
\* as it was, nothing is sent, and the service goes on.
C17_MalformedDropped ==
    [][Processed /\ Malformed(lastDatagram') =>
          /\ discovery'.discoveredUsers = discovery.discoveredUsers
          /\ datagrams' = datagrams
          /\ discovery'.discovering]_vars


\* the first line, by the words of C18
IsDecimal(text) == text # <<>> /\ \A i \in 1..Len(text) : IsDigit(text[i])
MalformedFirstLine(arrivedLine) ==
    LET line == Trimmed(arrivedLine)
        fields == Split(line, "|")
    IN \/ line = <<>>
       \/ ~Contains(line, "|")
       \/ fields[1] = <<>>
       \/ ~IsDecimal(fields[2])

\* C18: when the first line on an inbound socket is empty, has no '|', has an
\* empty file name or has a size that is no non-negative decimal number, the
\* Receiver closes that socket in the step that reads the line, makes no
\* pending entry, emits no offer, and leaves every other socket as it was.
C18_MalformedLineDisconnects ==
    [][\A k \in Sockets :
          /\ socks[k].lines # <<>>
          /\ socks'[k].lines = <<>>
          /\ MalformedFirstLine(Head(socks[k].lines))
          => /\ socks'[k].srv = "closed"
             /\ k \notin DOMAIN pendingFiles'
             /\ rcvEvents'[k] = <<>>
             /\ offered' = offered
             /\ \A j \in Sockets \ {k} :
                    /\ socks'[j] = socks[j]
                    /\ rcvEvents'[j] = rcvEvents[j]
                    /\ (j \in DOMAIN pendingFiles') = (j \in DOMAIN pendingFiles)]_vars

\* C19: the bytes that reached an inbound socket before a file was attached
\* to it are never written and never counted: what is counted as received is
\* at most what arrived after the file was attached.
C19_EarlyBytesNeverCounted ==
    \A k \in Sockets :
        /\ k \in DOMAIN pendingFiles =>
               pendingFiles[k].totalReceived <= socks[k].late
        /\ \A i \in 1..Len(rcvEvents[k]) : rcvEvents[k][i].recv <= socks[k].late

\* C20: for every inbound socket with a pending entry, bytesReceived is below
\* the declared size or the Receiver has closed the socket.
C20_BelowSizeOrClosed ==
    \A k \in DOMAIN pendingFiles :
        \/ pendingFiles[k].totalReceived < pendingFiles[k].size
        \/ socks[k].srv = "closed"


\* C21: startServer reports success only when the server listens, and then
\* the recorded transfer port is the port that was bound.
C21_StartedMeansListening ==
    server.started = "true" =>
        /\ server.listening
        /\ server.configPort = server.serverPort
        /\ server.serverPort # 0


\* the discovery service was created and could not bind its port
BindFailed == discovery.exists /\ discovery.discoverySocket = "null"

\* C22: when the discovery port cannot be bound the service stays disabled:
\* not discovering, no broadcast timer, no cleanup timer, nothing sent, no
\* started event and no peer in the table, whatever the transfers do.
C22_BindFailureDisablesDiscovery ==
    BindFailed =>
        /\ ~discovery.discovering
        /\ ~discovery.broadcastTimer
        /\ ~discovery.cleanupTimer
        /\ datagrams = <<>>
        /\ discovery.discoveredUsers = <<>>
        /\ \A i \in 1..Len(discovery.signals) :
               discovery.signals[i] # "discoveryStarted"

\* with discovery disabled a file sent to this instance was received and
\* its Sender finished, and a discovery request was handed to the handler
C22_Witness ==
    /\ BindFailed
    /\ received > 0
    /\ \E k \in Sockets :
           \E i \in 1..Len(rcvEvents[k]) : rcvEvents[k][i].sig = "received"
    /\ \E s \in Senders :
           Statuses(senders[s].session)[Len(statusLog[senders[s].session])]
               = FINISHED


\* C23: after stopDiscovery the socket is unbound, the peer table is empty
\* and no periodic timer of the service runs; a call while stopped changes
\* nothing and emits no stopped event; and while stopped a datagram or a
\* timer tick changes neither the peer table nor the datagrams sent.
C23_StopIdempotent ==
    [][/\ StopDiscoveryCalled =>
              /\ discovery'.discoverySocket = "null"
              /\ discovery'.discoveredUsers = <<>>
              /\ ~discovery'.broadcastTimer
              /\ ~discovery'.cleanupTimer
              /\ ~discovery'.fileScanTimer
              /\ ~discovery.discovering =>
                     /\ discovery' = [discovery EXCEPT !.signals = <<>>]
                     /\ datagrams' = datagrams
       /\ (discovery.exists /\ ~discovery.discovering) =>
              /\ discovery'.discoveredUsers = discovery.discoveredUsers
              /\ datagrams' = datagrams]_vars


\* a record the cleanup has to remove now: one with the local address or
\* hostname, or one whose address was last seen more than the timeout ago
Removable(user) ==
    \/ user.ipAddress = discovery.localIP
    \/ user.hostname = LocalHostname
    \/ clock - LastSeen(discovery.lastSeenTimes, user.ipAddress) > USER_TIMEOUT_MS

Remaining(user) == ~Removable(user)

ListedTuples(files) ==
    {<<files[i].name, files[i].name, NumberBytes(files[i].size), <<"file">>>> :
        i \in 1..Len(files)}

\* the tuples the receiving instance takes from a discovery message
DecodedTuples(message) ==
    LET sharedFiles == ParsedUser(Split(message, "|"), ForeignIP).sharedFiles
    IN {<<sharedFiles[i].name, sharedFiles[i].path, sharedFiles[i].size,
          sharedFiles[i].type>> : i \in 1..Len(sharedFiles)}

\* C30: the listing a receiving instance decodes from a discovery message
\* is the set of (name, path, size, type) tuples of the files the sending
\* instance found in its shared folder.
C30_ListingRoundTrip ==
    [][datagrams' # datagrams =>
           DecodedTuples(datagrams'[Len(datagrams')].message)
               = ListedTuples(discovery'.sharedFolder)]_vars

\* the same for folders without '|' in a file name
C30_PlainNamesRoundTrip ==
    [][(/\ datagrams' # datagrams
        /\ \A i \in 1..Len(discovery'.sharedFolder) :
               ~Contains(discovery'.sharedFolder[i].name, "|")) =>
           DecodedTuples(datagrams'[Len(datagrams')].message)
               = ListedTuples(discovery'.sharedFolder)]_vars


\* what Sender::reset leaves: no socket, no file, no timer, nothing counted
Released(sd) ==
    /\ sd.socket = "null"
    /\ sd.file = "null"
    /\ ~sd.connectionTimer
    /\ ~sd.responseTimer
    /\ sd.bytesSent = 0

\* C25: when a handler of a Sender has emitted a signal that ends the
\* transfer (refused, finished, error), the Sender has released its socket
\* and its file and stopped its timers, and a further reset changes nothing.
C25_TerminalEventReleases ==
    [][\A s \in DOMAIN senders :
           (/\ senders'[s].alive
            /\ Len(senders'[s].sigLog) > Len(senders[s].sigLog)
            /\ senders'[s].sigLog[Len(senders'[s].sigLog)] \in TerminalSignals)
           => /\ Released(senders'[s])
              /\ Reset(World, s)' = World']_vars

\* a second reset changes nothing, whatever the Sender holds
C25_ResetIdempotent ==
    \A s \in DOMAIN senders :
        Reset(Reset(World, s), s) = Reset(World, s)


\* socket k's first line is read in this step and is a download request
ReadsDownloadRequest(k) ==
    /\ k \in DOMAIN socks
    /\ k \notin DOMAIN pendingFiles
    /\ socks[k].srv = "open"
    /\ socks[k].lines # <<>>
    /\ StartsWith(Trimmed(Head(socks[k].lines)), DownloadPrefix)
    /\ socks'[k].lines = <<>>

\* C26: reading a first line "DOWNLOAD_REQUEST|.." creates no pending entry
\* and no session and emits no offer; with four fields that name a file of
\* the shared folder exactly one Sender starts a transfer of that file to
\* the requester's address and reply port; the requesting socket is
\* disconnected in every case.
C26_DownloadRequestHandled ==
    [][\A k \in DOMAIN socks : ReadsDownloadRequest(k) =>
           LET parts == Split(Trimmed(Head(socks[k].lines)), "|")
           IN /\ pendingFiles' = pendingFiles
              /\ sessions' = sessions
              /\ offered' = offered
              /\ rcvEvents'[k] = rcvEvents[k]
              /\ pendingBatchFiles' = pendingBatchFiles
              /\ socks'[k].srv = "closed"
              /\ Len(socks'[k].downloadSenders) <= 1
              /\ (Len(parts) >= 4 /\ parts[2] \in SharedPaths) =>
                     /\ Len(socks'[k].downloadSenders) = 1
                     /\ socks'[k].downloadSenders[1].file = parts[2]
                     /\ socks'[k].downloadSenders[1].ip = PeerAddress(socks[k])
                     /\ socks'[k].downloadSenders[1].port = ToUShort(parts[4])
                     /\ socks'[k].downloadSenders[1].socket = "connecting"]_vars

\* a request for the shared file a was answered with a transfer to port 5557
\* of the requester, and one for the missing file b with none
C26_Witness ==
    \E k, j \in DOMAIN socks :
        /\ socks[k].srv = "closed"
        /\ socks[k].downloadSenders =
               <<[file |-> <<"a">>, fullPath |-> SharedDir \o <<"a">>,
                  ip |-> ForeignIP, port |-> OtherPort,
                  socket |-> "connecting", connectionTimer |-> TRUE]>>
        /\ socks[j].srv = "closed"
        /\ socks[j].downloadSenders = <<>>
        /\ socks[j].wrote = <<>>
        /\ rcvEvents[j] = <<>>


\* what the remote Receiver makes of the one line download socket d wrote
ParsedAsRequested(d) ==
    LET line == Trimmed(d.written[1])
        parts == Split(line, "|")
    IN /\ StartsWith(line, DownloadPrefix)
       /\ Len(parts) >= 4
       /\ parts[2] = d.relativePath
       /\ parts[3] = d.fileName
       /\ ToUShort(parts[4]) = d.ourPort

\* C27: downloadSharedFile creates no session and no Sender; its socket
\* writes one DOWNLOAD_REQUEST line at most, which the remote Receiver parses
\* as a request with the same relativePath and fileName and the local
\* server's port; once the wait is over or an error has come the socket is
\* closed and handed to deleteLater.
C27_DownloadRequestSent ==
    [][server'.downloadSockets # server.downloadSockets =>
           /\ sessions' = sessions
           /\ senders' = senders
           /\ \A i \in DOMAIN server'.downloadSockets :
                  LET d == server'.downloadSockets[i]
                  IN /\ Len(d.written) <= 1
                     /\ d.written # <<>> => ParsedAsRequested(d)
                     /\ (d.written # <<>> /\ ~d.timer) => d.state = "unconnected"
                     /\ d.state = "unconnected" => d.deleted]_vars

\* the same for names without '|' and '%'
C27_PlainNamesRequestSent ==
    [][server'.downloadSockets # server.downloadSockets =>
           \A i \in DOMAIN server'.downloadSockets :
               LET d == server'.downloadSockets[i]
               IN (~Contains(d.fileName, "|") /\ ~Contains(d.fileName, "%")) =>
                      /\ Len(d.written) <= 1
                      /\ d.written # <<>> => ParsedAsRequested(d)
                      /\ (d.written # <<>> /\ ~d.timer) => d.state = "unconnected"
                      /\ d.state = "unconnected" => d.deleted]_vars


\* C28: the progress stored in a session, and every progress value a Sender
\* has published, lies in 0..100.
C28_ProgressInRange ==
    /\ \A sessionId \in DOMAIN sessions : sessions[sessionId].progress \in 0..100
    /\ \A s \in DOMAIN senders :
           \A i \in 1..Len(senders[s].progLog) : senders[s].progLog[i] \in 0..100


\* C29: when the receiver has accepted a file that exists but cannot be
\* opened for reading, and the Sender's handler has returned, the session's
\* status has become ERROR and is not IN_PROGRESS.
C29_UnreadableSourceIsError ==
    \A s \in DOMAIN senders :
        (/\ senders[s].fexists
         /\ ~senders[s].freadable
         /\ senders[s].firstReply = "OK"
         /\ senders[s].session \in DOMAIN statusLog)
        => LET log == statusLog[senders[s].session]
           IN /\ \E i \in 1..Len(log) : log[i].st = ERROR
              /\ senders[s].session \in DOMAIN sessions =>
                     sessions[senders[s].session].status # IN_PROGRESS


\* the batch events that handed socket k to the collaborator
BatchesWith(k) ==
    {i \in 1..Len(batchLog) :
        \E name \in DOMAIN batchLog[i].sockets : batchLog[i].sockets[name] = k}

\* the metadata of socket k was parsed
MetadataParsed(k) ==
    \E i \in 1..Len(rcvEvents[k]) : rcvEvents[k][i].sig = "requested"

\* C31: once the batch timer is idle and no dialog is open, every inbound
\* socket whose metadata was parsed has been handed to the collaborator in
\* exactly one batch event; no socket is ever in two.
C31_EveryOfferInOneBatch ==
    \A k \in DOMAIN socks :
        /\ Cardinality(BatchesWith(k)) <= 1
        /\ (MetadataParsed(k) /\ ~batchTimer /\ dialogs = <<>>) =>
               Cardinality(BatchesWith(k)) = 1


\* socket k is open at the Receiver's end and has a pending entry
OpenAndPending(k) ==
    /\ k \in DOMAIN socks
    /\ socks[k].srv = "open"
    /\ k \in DOMAIN pendingFiles

\* C32: when the batch timer emits a batch event every socket in it is open
\* and has a pending entry, and so is every socket the collaborator answers
\* or gives a file when the dialog returns.
C32_BatchSocketsOpen ==
    [][/\ Len(batchLog') > Len(batchLog) =>
              \A name \in DOMAIN pendingBatchSockets :
                  OpenAndPending(pendingBatchSockets[name])
       /\ Len(dialogs') < Len(dialogs) =>
              \A name \in DOMAIN pendingBatchFiles :
                  OpenAndPending(pendingBatchSockets[name])]_vars


\* nothing is left to run for Sender s: it has no socket, none of its timers
\* runs and no teardown callback is pending for it
Quiescent(s) ==
    /\ senders[s].alive
    /\ senders[s].socket = "null"
    /\ ~senders[s].connectionTimer
    /\ ~senders[s].responseTimer
    /\ \A cb \in cleanups : cb.sender # s

\* C33: an outbound session whose Sender has nothing left to run has reached
\* FINISHED, CANCELLED or ERROR: no session is left behind in WAITING or
\* IN_PROGRESS.
C33_OutboundSessionEnds ==
    \A s \in DOMAIN senders :
        (Quiescent(s) /\ senders[s].session \in DOMAIN statusLog) =>
            LET log == statusLog[senders[s].session]
            IN log[Len(log)].st \in Terminal


\* C34: the receiving side writes one decision line at most to an inbound
\* socket, OK or NO and never both.
C34_OneDecisionLine ==
    \A k \in DOMAIN socks : socks[k].wrote \in {<<>>, <<OKLine>>, <<NOLine>>}


\* the signals the Receiver emitted for socket k
RcvSignals(k) == {rcvEvents[k][i].sig : i \in 1..Len(rcvEvents[k])}

\* C35: an inbound socket to which no file was attached when its connection
\* ended, rejected or never decided, has produced neither a
\* received-successfully notification nor the status FINISHED.
C35_NoFileNeverFinished ==
    [][\A k \in DOMAIN socks :
           (/\ k \in DOMAIN pendingFiles
            /\ pendingFiles[k].file # "open"
            /\ k \notin DOMAIN pendingFiles')
           => /\ "received" \notin RcvSignals(k)'
              /\ FINISHED \notin RcvSignals(k)']_vars


\* the file a path leads to lies in the shared folder
InSharedFolder(path) ==
    LET dir == Resolve(SharedDir)
        file == Resolve(path)
    IN Len(file) > Len(dir) /\ SubSeq(file, 1, Len(dir)) = dir

\* C36: every transfer a download request has started sends a file that
\* lies in the shared folder.
C36_OnlySharedFilesSent ==
    \A k \in DOMAIN socks :
        \A i \in 1..Len(socks[k].downloadSenders) :
            InSharedFolder(socks[k].downloadSenders[i].fullPath)

\* a timer of Sender s fires in this step
TimerFires(s) ==
    /\ s \in DOMAIN senders /\ s \in DOMAIN senders'
    /\ senders[s].timedOut = "none"
    /\ senders'[s].timedOut # "none"

\* C37: the connection timer fires only on a Sender that is connecting and
\* the response timer only on a connected Sender that has read no decision
\* line; neither fires after a socket error.
C37_TimeoutOnlyWhileWaiting ==
    [][\A s \in DOMAIN senders :
           TimerFires(s) =>
               /\ ~senders[s].faulted
               /\ senders[s].firstReply = "none"
               /\ senders'[s].timedOut = "connect" =>
                      senders[s].socket = "connecting"
               /\ senders'[s].timedOut = "response" =>
                      senders[s].socket = "connected"]_vars

\* Receiver::onReadyRead reads the first line of socket k in this step
ReadsFirstLine(k) ==
    /\ k \in DOMAIN socks /\ k \in DOMAIN socks'
    /\ k \notin DOMAIN pendingFiles
    /\ socks[k].lines # <<>>
    /\ socks'[k].lines = <<>>

\* C38: when the Receiver reads the metadata line a Sender wrote, it records
\* an offer with the Sender's file name and file size.
C38_MetadataRoundTrip ==
    [][\A k \in DOMAIN socks :
           (ReadsFirstLine(k) /\ socks[k].client \in DOMAIN senders) =>
               LET sd == senders[socks[k].client]
               IN /\ socks[k].lines = <<MetadataLine(sd.fname, sd.fsize)>>
                  /\ k \in DOMAIN pendingFiles'
                  /\ pendingFiles'[k].name = sd.fname
                  /\ pendingFiles'[k].size = sd.fsize]_vars

\* the transfer port a discovery message carries
CarriedPort(message) == ToUShort(Split(message, "|")[3])

\* C39: every discovery message the service sends carries the port on which
\* the Receiver listens when the message is sent.
C39_AnnouncedPortListens ==
    [][\A i \in (Len(datagrams) + 1)..Len(datagrams') :
           /\ server.listening
           /\ CarriedPort(datagrams'[i].message) = server.serverPort]_vars

\* the map entries that name session sessionId
EntriesFor(sessionId) ==
    {s \in DOMAIN senderToSession : senderToSession[s] = sessionId}

\* C40: senderToSession and the session table agree: every entry names a
\* session of the table whose sender is the entry's key, every session with a
\* sender has exactly one entry, and every session id handed out so far is
\* below nextSessionId, so that no id is handed out twice.
C40_MapAndTableAgree ==
    ~crashed =>
        /\ \A s \in DOMAIN senderToSession :
               /\ senderToSession[s] \in DOMAIN sessions
               /\ sessions[senderToSession[s]].sender = s
        /\ \A sessionId \in DOMAIN sessions :
               /\ sessions[sessionId].id = sessionId
               /\ sessions[sessionId].sender # 0 =>
                      EntriesFor(sessionId) = {sessions[sessionId].sender}
        /\ \A sessionId \in created \cup DOMAIN sessions :
               sessionId < nextSessionId

\* two Senders have been created, the teardown of one has removed its session
\* and its entry, and the other still has both
C40_Witness ==
    /\ ~crashed /\ ~destroyed
    /\ Cardinality(created) = 2
    /\ Cardinality(DOMAIN senderToSession) = 1
    /\ \E s \in DOMAIN senderToSession :
           /\ senders[s].alive
           /\ sessions[senderToSession[s]].sender = s
    /\ \E s \in Senders : senders[s].deletedBy = "callback"

====
